---- MODULE Spec2Model ----
(***************************************************************************)
(* Model of the appointment-booking backend (src/backend/server.js):       *)
(* the time/date normalizer, the free-form chat turn, the guided-flow      *)
(* step, the conversation-state read, and the session and CRM stores they  *)
(* act on.                                                                 *)
(*                                                                         *)
(* JavaScript strings are modelled as sequences of one-character strings,  *)
(* so that the regular expressions of the source are evaluated on the      *)
(* characters.  null/undefined is the one-element sequence NULL, which is  *)
(* not a string of characters.                                             *)
(***************************************************************************)
EXTENDS Integers, Sequences, FiniteSets, TLC

NULL == <<"NULL">>

\* JavaScript truthiness of a string-or-null value: null and "" are falsy.
\* a JSON number other than 0: a value that is truthy and not a string
NumberValue == <<"number">>

isString(x) == x # NULL /\ x # NumberValue

Falsy(x) == x = NULL \/ x = <<>>

----------------------------------------------------------------------------
(* Characters and numbers                                                  *)

DigitChars == <<"0", "1", "2", "3", "4", "5", "6", "7", "8", "9">>

IsDigit(c) == \E d \in 1..10 : DigitChars[d] = c

DigitVal(c) == (CHOOSE d \in 1..10 : DigitChars[d] = c) - 1

\* pattern test: "#" in the pattern stands for \d, any other character for itself
MatchPattern(s, pat) ==
    /\ Len(s) = Len(pat)
    /\ \A i \in 1..Len(pat) : IF pat[i] = "#" THEN IsDigit(s[i]) ELSE s[i] = pat[i]

RECURSIVE parseInt(_)
parseInt(ds) ==
    IF Len(ds) = 0 THEN 0
    ELSE 10 * parseInt(SubSeq(ds, 1, Len(ds) - 1)) + DigitVal(ds[Len(ds)])

RECURSIVE toString(_)
toString(n) ==
    IF n < 10 THEN <<DigitChars[n + 1]>>
    ELSE toString(n \div 10) \o <<DigitChars[(n % 10) + 1]>>

padStart2(s) == IF Len(s) < 2 THEN <<"0">> \o s ELSE s

RECURSIVE trimStart(_)
trimStart(s) == IF Len(s) > 0 /\ s[1] = " " THEN trimStart(Tail(s)) ELSE s

RECURSIVE trimEnd(_)
trimEnd(s) ==
    IF Len(s) > 0 /\ s[Len(s)] = " " THEN trimEnd(SubSeq(s, 1, Len(s) - 1)) ELSE s

trim(s) == trimEnd(trimStart(s))

toUpperCase(c) ==
    CASE c = "a" -> "A"
      [] c = "p" -> "P"
      [] c = "m" -> "M"
      [] OTHER -> c

----------------------------------------------------------------------------
(* Time/Date normalizer                                                    *)

\* /^\d{4}-\d{2}-\d{2}T(\d{2}:\d{2}:\d{2})\.\d{3}Z$/
isoRegex ==
    <<"#", "#", "#", "#", "-", "#", "#", "-", "#", "#", "T",
      "#", "#", ":", "#", "#", ":", "#", "#", ".", "#", "#", "#", "Z">>

\* /^\d{4}-\d{2}-\d{2}$/
dateRegex == <<"#", "#", "#", "#", "-", "#", "#", "-", "#", "#">>

\* /^(\d{1,2}):?(\d{2})?\s*(AM|PM)?$/i : the ways of splitting s into
\* hours (hl digits), colon (c), minutes (ml digits), blanks (ws), modifier (ml2)
timeRegexSplits(s) ==
    { x \in {1, 2} \X {0, 1} \X {0, 2} \X (0..Len(s)) \X {0, 2} :
        LET hl == x[1]  c == x[2]  ml == x[3]  ws == x[4]  dl == x[5] IN
        /\ hl + c + ml + ws + dl = Len(s)
        /\ \A i \in 1..hl : IsDigit(s[i])
        /\ c = 1 => s[hl + 1] = ":"
        /\ \A i \in (hl + c + 1)..(hl + c + ml) : IsDigit(s[i])
        /\ \A i \in (hl + c + ml + 1)..(hl + c + ml + ws) : s[i] = " "
        /\ dl = 2 => /\ toUpperCase(s[Len(s) - 1]) \in {"A", "P"}
                     /\ toUpperCase(s[Len(s)]) = "M" }

\* the split the backtracking matcher finds first: every quantifier is greedy
timeRegexPrefer(x, y) ==
    \/ x[1] > y[1]
    \/ x[1] = y[1] /\ x[2] > y[2]
    \/ x[1] = y[1] /\ x[2] = y[2] /\ x[3] > y[3]
    \/ x[1] = y[1] /\ x[2] = y[2] /\ x[3] = y[3] /\ x[4] > y[4]
    \/ x[1] = y[1] /\ x[2] = y[2] /\ x[3] = y[3] /\ x[4] = y[4] /\ x[5] >= y[5]

timeRegexMatch(s) ==
    LET splits == timeRegexSplits(s) IN
    IF splits = {} THEN [ok |-> FALSE, hours |-> NULL, minutes |-> NULL, modifier |-> NULL]
    ELSE LET x == CHOOSE a \in splits : \A b \in splits : timeRegexPrefer(a, b)
             hl == x[1]  c == x[2]  ml == x[3]  dl == x[5]
         IN [ok       |-> TRUE,
             hours    |-> SubSeq(s, 1, hl),
             minutes  |-> IF ml = 0 THEN NULL ELSE SubSeq(s, hl + c + 1, hl + c + ml),
             modifier |-> IF dl = 0 THEN NULL
                          ELSE <<toUpperCase(s[Len(s) - 1]), toUpperCase(s[Len(s)])>>]

\* applyModifier without the exception for 12 PM
applyModifierNoon(hours, modifier) ==
    IF modifier = NULL THEN hours
    ELSE IF modifier = <<"P", "M">> THEN hours + 12
    ELSE IF modifier = <<"A", "M">> /\ hours = 12 THEN 0
    ELSE hours

\* hours after the AM/PM adjustment (server.js 163-167)
applyModifier(hours, modifier) ==
    IF modifier = NULL THEN hours
    ELSE IF modifier = <<"P", "M">> /\ hours # 12 THEN hours + 12
    ELSE IF modifier = <<"A", "M">> /\ hours = 12 THEN 0
    ELSE hours

\* formatTime24 without the padding of the hour
formatTime24Unpadded(hours, minutes) ==
    toString(hours) \o <<":">> \o padStart2(toString(minutes)) \o <<":", "0", "0">>

\* `${hours.toString().padStart(2, '0')}:${minutes.toString().padStart(2, '0')}:00`
formatTime24(hours, minutes) ==
    padStart2(toString(hours)) \o <<":">> \o padStart2(toString(minutes)) \o <<":", "0", "0">>

convertTo24HourTime(timeStr) ==
    IF Falsy(timeStr) THEN NULL
    ELSE IF MatchPattern(timeStr, isoRegex) THEN SubSeq(timeStr, 12, 19)
    ELSE LET match == timeRegexMatch(trim(timeStr)) IN
         IF ~match.ok THEN NULL
         ELSE LET hours   == parseInt(match.hours)
                  minutes == IF match.minutes = NULL THEN 0 ELSE parseInt(match.minutes)
              IN IF hours > 23 \/ hours < 0 \/ minutes > 59 \/ minutes < 0 THEN NULL
                 ELSE formatTime24(applyModifier(hours, match.modifier), minutes)

combineDateTime(dateStr, timeStr) ==
    IF Falsy(dateStr) \/ Falsy(timeStr) THEN NULL
    ELSE IF MatchPattern(timeStr, isoRegex) THEN timeStr
    ELSE IF ~MatchPattern(dateStr, dateRegex) THEN NULL
    ELSE LET time24 == convertTo24HourTime(timeStr) IN
         IF time24 = NULL THEN NULL
         ELSE dateStr \o <<"T">> \o time24 \o <<".", "0", "0", "0", "Z">>

----------------------------------------------------------------------------
(* Display format of a date/time, and reading it back                      *)

Letters ==
    {
      "a", "b", "c", "d", "e", "f", "g", "h", "i", "j", "k", "l", "m", "n",
      "o", "p", "q", "r", "s", "t", "u", "v", "w", "x", "y", "z", "A", "B",
      "C", "D", "E", "F", "G", "H", "I", "J", "K", "L", "M", "N", "O", "P",
      "Q", "R", "S", "T", "U", "V", "W", "X", "Y", "Z" }

\* \w
IsWordChar(c) == c \in Letters \/ IsDigit(c) \/ c = "_"

monthNames ==
    << <<"J", "a", "n", "u", "a", "r", "y">>,
       <<"F", "e", "b", "r", "u", "a", "r", "y">>,
       <<"M", "a", "r", "c", "h">>,
       <<"A", "p", "r", "i", "l">>,
       <<"M", "a", "y">>,
       <<"J", "u", "n", "e">>,
       <<"J", "u", "l", "y">>,
       <<"A", "u", "g", "u", "s", "t">>,
       <<"S", "e", "p", "t", "e", "m", "b", "e", "r">>,
       <<"O", "c", "t", "o", "b", "e", "r">>,
       <<"N", "o", "v", "e", "m", "b", "e", "r">>,
       <<"D", "e", "c", "e", "m", "b", "e", "r">> >>

isLeapYear(year) == (year % 4 = 0 /\ year % 100 # 0) \/ year % 400 = 0

daysInMonth(year, month) ==
    IF month = 2 THEN (IF isLeapYear(year) THEN 29 ELSE 28)
    ELSE IF month \in {4, 6, 9, 11} THEN 30 ELSE 31

InvalidDate == [valid |-> FALSE, year |-> 0, month |-> 0, day |-> 0, hours |-> 0, minutes |-> 0]

\* year, month (1..12) and day after a day past the end of the month is carried over
carryDay(year, month, day) ==
    IF day <= daysInMonth(year, month) THEN [year |-> year, month |-> month, day |-> day]
    ELSE IF month = 12 THEN [year |-> year + 1, month |-> 1, day |-> day - 31]
    ELSE [year |-> year, month |-> month + 1, day |-> day - daysInMonth(year, month)]

\* new Date(iso) for a string of the shape isoRegex, read in UTC
DateOfIso(iso) ==
    LET year    == parseInt(SubSeq(iso, 1, 4))
        month   == parseInt(SubSeq(iso, 6, 7))
        day     == parseInt(SubSeq(iso, 9, 10))
        hours   == parseInt(SubSeq(iso, 12, 13))
        minutes == parseInt(SubSeq(iso, 15, 16))
        seconds == parseInt(SubSeq(iso, 18, 19))
        millis  == parseInt(SubSeq(iso, 21, 23))
    IN  IF \/ month < 1 \/ month > 12
           \/ day < 1 \/ day > daysInMonth(year, month)
           \/ hours > 24 \/ minutes > 59 \/ seconds > 59
           \/ (hours = 24 /\ (minutes # 0 \/ seconds # 0 \/ millis # 0))
        THEN InvalidDate
        ELSE IF hours = 24
        THEN LET next == carryDay(year, month, day + 1)
             IN  [valid |-> TRUE, year |-> next.year, month |-> next.month, day |-> next.day,
                  hours |-> 0, minutes |-> 0]
        ELSE [valid |-> TRUE, year |-> year, month |-> month, day |-> day,
              hours |-> hours, minutes |-> minutes]

\* what the en-US locale data puts between the date and the time: ", " with
\* older ICU data, " at " with newer
DateTimeSeparators == {<<",", " ">>, <<" ", "a", "t", " ">>}

\* date.toLocaleString('en-US', {timeZone: 'UTC', month: 'long', day: 'numeric',
\*   year: 'numeric', hour: '2-digit', minute: '2-digit', hour12: true})
toLocaleString(date, separator) ==
    IF ~date.valid THEN <<"I", "n", "v", "a", "l", "i", "d", " ", "D", "a", "t", "e">>
    ELSE monthNames[date.month] \o <<" ">> \o toString(date.day) \o <<",", " ">>
         \o toString(date.year) \o separator
         \o padStart2(toString(IF date.hours % 12 = 0 THEN 12 ELSE date.hours % 12))
         \o <<":">> \o padStart2(toString(date.minutes))
         \o <<" ">> \o (IF date.hours < 12 THEN <<"A", "M">> ELSE <<"P", "M">>)

\* formatted.replace(/(\d+),/, '$1th,'): the first comma that follows a digit
replaceDayOrdinal(formatted) ==
    LET commas == { i \in 2..Len(formatted) : formatted[i] = "," /\ IsDigit(formatted[i - 1]) }
    IN  IF commas = {} THEN formatted
        ELSE LET at == CHOOSE i \in commas : \A j \in commas : i <= j
             IN  SubSeq(formatted, 1, at - 1) \o <<"t", "h">>
                 \o SubSeq(formatted, at, Len(formatted))

NotSpecified == <<"N", "o", "t", " ", "s", "p", "e", "c", "i", "f", "i", "e", "d">>

formatDateTimeForDisplay(isoDateTime, separator) ==
    IF Falsy(isoDateTime) THEN NotSpecified
    ELSE replaceDayOrdinal(toLocaleString(DateOfIso(isoDateTime), separator))

\* the start of the run of word characters that ends at position last
RECURSIVE wordStart(_, _)
wordStart(s, last) ==
    IF last > 1 /\ IsWordChar(s[last - 1]) THEN wordStart(s, last - 1) ELSE last

\* every d in from..to is a digit of s
digitsAt(s, from, to) == to <= Len(s) /\ \A i \in from..to : IsDigit(s[i])

\* the text t stands in s at position from
textAt(s, from, t) ==
    from + Len(t) - 1 <= Len(s) /\ \A i \in 1..Len(t) : s[from + i - 1] = t[i]

\* /(\w+ \d{1,2}, \d{4}), (\d{1,2}:\d{2} [AP]M)/i : the matches, each given by the
\* blank after the word, the number of day digits and the number of hour digits
dateTimeMatches(s) ==
    { x \in (2..Len(s)) \X {1, 2} \X {1, 2} :
        LET blank  == x[1]
            year   == blank + x[2] + 3
            hour   == year + 6
            minute == hour + x[3] + 1
        IN  /\ s[blank] = " " /\ IsWordChar(s[blank - 1])
            /\ digitsAt(s, blank + 1, blank + x[2])
            /\ textAt(s, blank + x[2] + 1, <<",", " ">>)
            /\ digitsAt(s, year, year + 3)
            /\ textAt(s, year + 4, <<",", " ">>)
            /\ digitsAt(s, hour, hour + x[3] - 1)
            /\ textAt(s, hour + x[3], <<":">>)
            /\ digitsAt(s, minute, minute + 1)
            /\ textAt(s, minute + 2, <<" ">>)
            /\ minute + 4 <= Len(s)
            /\ toUpperCase(s[minute + 3]) \in {"A", "P"}
            /\ toUpperCase(s[minute + 4]) = "M" }

\* the match the regex engine reports: leftmost, then the greedy choices
dateTimeMatch(s) ==
    LET all  == dateTimeMatches(s)
        key(x) == <<wordStart(s, x[1] - 1), 0 - x[1], 0 - x[2], 0 - x[3]>>
        less(a, b) == \E i \in 1..4 : a[i] < b[i] /\ \A j \in 1..(i - 1) : a[j] = b[j]
    IN  IF all = {} THEN [ok |-> FALSE]
        ELSE LET x == CHOOSE a \in all : \A b \in all \ {a} : less(key(a), key(b))
                 from == wordStart(s, x[1] - 1)
             IN  [ok |-> TRUE,
                  word |-> SubSeq(s, from, x[1] - 1),
                  day  |-> SubSeq(s, x[1] + 1, x[1] + x[2]),
                  year |-> SubSeq(s, x[1] + x[2] + 3, x[1] + x[2] + 6),
                  timePart |-> SubSeq(s, x[1] + x[2] + 9, x[1] + x[2] + x[3] + 14)]

\* the month a word names (0: none); the names are those toLocaleString writes
monthOf(word) ==
    IF \E i \in 1..12 : monthNames[i] = word
    THEN CHOOSE i \in 1..12 : monthNames[i] = word
    ELSE 0

\* new Date(datePart) of "Month D, YYYY", then getFullYear/getMonth/getDate
parseDateTimeString(dateTimeStr) ==
    IF Falsy(dateTimeStr) THEN [date |-> NULL, time |-> NULL]
    ELSE LET parts == dateTimeMatch(dateTimeStr) IN
         IF ~parts.ok THEN [date |-> NULL, time |-> NULL]
         ELSE LET month == monthOf(parts.word)
                  day   == parseInt(parts.day)
              IN  IF month = 0 \/ day < 1 \/ day > 31 THEN [date |-> NULL, time |-> NULL]
                  ELSE LET dateObj == carryDay(parseInt(parts.year), month, day)
                       IN  [date |-> toString(dateObj.year) \o <<"-">>
                                     \o padStart2(toString(dateObj.month)) \o <<"-">>
                                     \o padStart2(toString(dateObj.day)),
                            time |-> parts.timePart]

----------------------------------------------------------------------------
(* Harness of the normalizer: the inputs the pure functions are applied to *)

HourRange == 0..99          \* every value the one or two digits \d{1,2} can spell
MinuteRange == 0..99        \* every value the two digits \d{2} can spell
NoMinute == <<>>            \* an omitted minute part; a minute m is <<m>>

Modifiers == {NULL, <<"A", "M">>, <<"P", "M">>, <<"p", "m">>}

\* "H", "H:MM", "H AM", "H:MM PM", ...
timeText(h, m, mod) ==
    toString(h)
    \o (IF m = NoMinute THEN <<>> ELSE <<":">> \o padStart2(toString(m[1])))
    \o (IF mod = NULL THEN <<>> ELSE <<" ">> \o mod)

GoodDate == <<"2", "0", "2", "5", "-", "0", "3", "-", "1", "0">>
OtherDate == <<"2", "0", "2", "5", "-", "0", "3", "-", "1", "1">>
ShortDate == <<"2", "0", "2", "5", "-", "3", "-", "1", "0">>
SlashDate == <<"0", "3", "/", "1", "0", "/", "2", "0", "2", "5">>
WordDate == <<"t", "o", "m", "o", "r", "r", "o", "w">>

IsoTime == GoodDate \o <<"T", "1", "6", ":", "0", "0", ":", "0", "0", ".", "0", "0", "0", "Z">>
IsoNoMillis == GoodDate \o <<"T", "1", "6", ":", "0", "0", ":", "0", "0", "Z">>

DateInputs == {NULL, <<>>, GoodDate, OtherDate, ShortDate, SlashDate, WordDate}

\* times that are not of the shape timeText builds
OddTimeInputs ==
    { NULL, <<>>, IsoTime, IsoNoMillis,
      <<"n", "o", "o", "n">>,
      <<"9", "3", "0">>, <<"1", "4", "3", "0">>, <<"1", "2", ":">>,
      <<" ", "9", ":", "3", "0", " ", " ", "A", "M", " ">>,
      <<"9", ":", "3", "0", "P", "M">>,
      <<"9", ":", "3">>, <<"1", "2", "3", "4", "5">>, <<"9", ":", "3", "0", " ", "X", "M">> }

\* a few well-formed times, tried with every date
SampleTimeInputs ==
    { timeText(x[1], x[2], x[3]) :
        x \in {9, 12, 13, 23, 24} \X {NoMinute, <<0>>, <<30>>, <<60>>} \X {NULL, <<"A", "M">>, <<"P", "M">>} }

normIdle == [pc |-> "idle", shaped |-> FALSE, h |-> 0, m |-> NoMinute, mod |-> NULL,
             date |-> NULL, time |-> NULL,
             time24 |-> NULL, combined |-> NULL, recombined |-> NULL,
             formatted |-> NULL, reparsed |-> NULL,
             arr |-> <<>>, mostFrequent |-> NULL,
             previousAppointments |-> <<>>, contextData |-> NULL,
             slots |-> {}, appointments |-> {}, location |-> NULL,
             isSlotAvailable |-> FALSE, missingFields |-> <<>>,
             suggested_alternatives |-> NULL]

\* the hour and the minute a result "HH:MM:00" carries
resultHour(t24) == parseInt(SubSeq(t24, 1, 2))
resultMinute(t24) == parseInt(SubSeq(t24, 4, 5))

----------------------------------------------------------------------------
(* The LLM's text and its JSON reading                                     *)
(*                                                                         *)
(* The text the LLM returns is a sequence of segments: prose, a code fence *)
(* (```), or a brace-balanced {...} span that is valid JSON or not, or a   *)
(* JSON value that is not an object.  A valid span carries the value it    *)
(* parses to.                                                              *)

Details(kind, reason, date, time, location, banker) ==
    [kind |-> kind,                    \* "obj", "null" or "undefined"
     Reason_for_Visit__c |-> reason,
     Appointment_Date__c |-> date,
     Appointment_Time__c |-> time,
     Location__c |-> location,
     Banker__c |-> banker,
     Id |-> NULL]

NoDetails(kind) == Details(kind, NULL, NULL, NULL, NULL, NULL)

\* a parsed JSON value: an object with its "response" and "appointmentDetails"
\* properties, and whether its "timeSlots" and "locationOptions" are
\* non-empty arrays; the value null; or a primitive (a string, a number)
JsonObject(hasResponse, details) ==
    [type |-> "object", response |-> hasResponse, appointmentDetails |-> details,
     timeSlots |-> FALSE, locationOptions |-> FALSE]
JsonNull ==
    [type |-> "null", response |-> FALSE, appointmentDetails |-> NoDetails("undefined"),
     timeSlots |-> FALSE, locationOptions |-> FALSE]
JsonPrimitive ==
    [type |-> "primitive", response |-> FALSE, appointmentDetails |-> NoDetails("undefined"),
     timeSlots |-> FALSE, locationOptions |-> FALSE]
\* {"response": ..., "timeSlots": [...], "locationOptions": [...]}
JsonSuggestions ==
    [JsonObject(TRUE, NoDetails("undefined")) EXCEPT !.timeSlots = TRUE, !.locationOptions = TRUE]
EmptyObject == JsonObject(FALSE, NoDetails("undefined"))

Prose == [seg |-> "prose", valid |-> FALSE, val |-> JsonNull]
Fence == [seg |-> "fence", valid |-> FALSE, val |-> JsonNull]
Span(v) == [seg |-> "span", valid |-> TRUE, val |-> v]           \* {...} that parses
BadSpan == [seg |-> "span", valid |-> FALSE, val |-> JsonNull]   \* {...} that does not
Literal(v) == [seg |-> "literal", valid |-> TRUE, val |-> v]     \* null, "text", 42

\* JSON.parse: the text must be one JSON value and nothing else
JSONparse(text) ==
    IF Len(text) = 1 /\ text[1].valid
    THEN [ok |-> TRUE, val |-> text[1].val]
    ELSE [ok |-> FALSE, val |-> JsonNull]

\* /```(?:json)?\s*({[\s\S]*?})\s*```/ : the first fence that is followed by
\* a span, and from there the shortest stretch that ends in a span and a fence
codeBlockMatch(text) ==
    LET starts == { i \in 1..Len(text) :
                      /\ text[i].seg = "fence"
                      /\ i + 1 <= Len(text) /\ text[i + 1].seg = "span"
                      /\ \E j \in (i + 1)..(Len(text) - 1) :
                            text[j].seg = "span" /\ text[j + 1].seg = "fence" }
    IN IF starts = {} THEN <<>>
       ELSE LET i == CHOOSE a \in starts : \A b \in starts : a <= b
                ends == { j \in (i + 1)..(Len(text) - 1) :
                            text[j].seg = "span" /\ text[j + 1].seg = "fence" }
                j == CHOOSE a \in ends : \A b \in ends : a <= b
            IN SubSeq(text, i + 1, j)

\* /{(?:[^{}]|{(?:[^{}]|{[^{}]*})*})*}/g : the brace-balanced spans, in order
RECURSIVE jsonRegexMatches(_)
jsonRegexMatches(text) ==
    IF text = <<>> THEN <<>>
    ELSE (IF Head(text).seg = "span" THEN <<Head(text)>> ELSE <<>>)
         \o jsonRegexMatches(Tail(text))

RECURSIVE firstParsing(_)
firstParsing(matches) ==
    IF matches = <<>> THEN <<>>
    ELSE IF JSONparse(<<Head(matches)>>).ok THEN <<Head(matches)>>
    ELSE firstParsing(Tail(matches))

extractJSON(str) ==
    LET block == codeBlockMatch(str) IN
    IF block # <<>> /\ JSONparse(block).ok THEN block
    ELSE LET found == firstParsing(jsonRegexMatches(str)) IN
         IF found # <<>> THEN found
         ELSE <<Span(EmptyObject)>>

----------------------------------------------------------------------------
(* Values the collaborators and the callers supply                         *)

Loan == <<"L", "o", "a", "n">>
Brooklyn == <<"B", "r", "o", "o", "k", "l", "y", "n">>
Manhattan == <<"M", "a", "n", "h", "a", "t", "t", "a", "n">>
Queens == <<"Q", "u", "e", "e", "n", "s">>
StaffBanker == <<"0", "0", "5", "d", "M">>
OtherBanker == <<"a", "0", "A", "d", "M">>
Hello == <<"h", "i">>
ConfirmText == <<"C", "o", "n", "f", "i", "r", "m">>

TwoPM == timeText(2, <<0>>, <<"P", "M">>)
Hour25 == timeText(25, <<0>>, NULL)

\* appointmentDetails objects the LLM may return
LLMDetails ==
    { Details("obj", Loan, GoodDate, TwoPM, Brooklyn, NULL),
      Details("obj", Loan, GoodDate, TwoPM, Brooklyn, StaffBanker),
      Details("obj", Loan, GoodDate, TwoPM, Brooklyn, OtherBanker),
      Details("obj", Loan, GoodDate, TwoPM, Brooklyn, NumberValue),
      Details("obj", Loan, GoodDate, Hour25, Brooklyn, NULL),
      Details("obj", Loan, SlashDate, TwoPM, Brooklyn, NULL),
      Details("obj", Loan, WordDate, IsoTime, Manhattan, NULL),
      Details("obj", Loan, GoodDate, TwoPM, Queens, NULL),
      Details("obj", Loan, NULL, NULL, NULL, NULL),
      Details("obj", NULL, GoodDate, TwoPM, Brooklyn, NULL),
      Details("obj", <<>>, GoodDate, TwoPM, Brooklyn, NULL),
      Details("obj", Loan, NULL, TwoPM, Brooklyn, NULL),
      Details("obj", Loan, GoodDate, <<>>, Brooklyn, NULL),
      Details("obj", Loan, GoodDate, TwoPM, NULL, NULL),
      Details("obj", NULL, NULL, NULL, NULL, NULL) }

\* texts the LLM may return
LLMTexts ==
    { <<Span(JsonObject(TRUE, d))>> : d \in LLMDetails }
    \cup
    { <<Prose, Fence, Span(JsonObject(TRUE, Details("obj", Loan, OtherDate, TwoPM, Brooklyn, NULL))), Fence>>,
      <<Prose, Span(JsonObject(TRUE, Details("obj", Loan, NULL, NULL, NULL, NULL))), Prose>>,
      <<Fence, BadSpan, Fence, Prose, Span(JsonObject(TRUE, Details("obj", Loan, GoodDate, TwoPM, NULL, NULL)))>>,
      <<Prose>>,
      <<BadSpan>>,
      <<Span(JsonObject(TRUE, NoDetails("undefined")))>>,
      <<Span(JsonObject(TRUE, NoDetails("null")))>>,
      <<Literal(JsonNull)>>,
      <<Literal(JsonPrimitive)>> }

\* error.message of a failing collaborator call
CollaboratorErrors == {"timeout", "INVALID_SESSION_ID: Session expired or invalid"}

\* error.message.includes('session') || error.message.includes('Session'),
\* for the messages an error can carry in this model
mentionsSession(message) ==
    message \in {"INVALID_SESSION_ID: Session expired or invalid"}

\* outcomes of openai.chat.completions.create
LLMOutcomes ==
    { [ok |-> TRUE, text |-> t, message |-> ""] : t \in LLMTexts }
    \cup { [ok |-> FALSE, text |-> <<>>, message |-> m] : m \in CollaboratorErrors }

\* the outcomes tried in behaviours of several turns
CommonLLMTexts ==
    { <<Span(JsonObject(TRUE, Details("obj", Loan, GoodDate, TwoPM, Brooklyn, NULL)))>>,
      <<Span(JsonObject(TRUE, Details("obj", Loan, GoodDate, Hour25, Brooklyn, NULL)))>>,
      <<Span(JsonObject(TRUE, Details("obj", Loan, NULL, NULL, NULL, NULL)))>>,
      <<Span(JsonObject(TRUE, Details("obj", NULL, GoodDate, TwoPM, Brooklyn, NULL)))>>,
      <<Prose>> }

CommonLLMOutcomes ==
    { [ok |-> TRUE, text |-> t, message |-> ""] : t \in CommonLLMTexts }
    \cup { [ok |-> FALSE, text |-> <<>>, message |-> m] : m \in CollaboratorErrors }

\* what the LLM may return to a guided step
GuidedLLMTexts ==
    { <<Span(JsonSuggestions)>>,
      <<Span(JsonObject(TRUE, NoDetails("undefined")))>>,
      <<Prose>>,
      <<Literal(JsonNull)>> }

GuidedLLMOutcomes ==
    { [ok |-> TRUE, text |-> t, message |-> ""] : t \in GuidedLLMTexts }
    \cup { [ok |-> FALSE, text |-> <<>>, message |-> "timeout"] }

\* outcomes of conn.query: the records, or a rejection
QueryOutcomes ==
    { [ok |-> TRUE, message |-> ""] }
    \cup { [ok |-> FALSE, message |-> m] : m \in CollaboratorErrors }

\* outcomes of conn.sobject(...).create: {success: true, id}, {success: false}, or a rejection
CreateOutcomes ==
    { [ok |-> TRUE, success |-> TRUE, message |-> ""],
      [ok |-> TRUE, success |-> FALSE, message |-> ""] }
    \cup { [ok |-> FALSE, success |-> FALSE, message |-> m] : m \in CollaboratorErrors }

\* toLowerCase for the letters the branch-locator phrase is written with
toLowerCaseChar(c) ==
    CASE c = "F" -> "f"
      [] c = "D" -> "d"
      [] c = "A" -> "a"
      [] c = "T" -> "t"
      [] c = "M" -> "m"
      [] c = "B" -> "b"
      [] OTHER -> c

toLowerCase(s) == [i \in 1..Len(s) |-> toLowerCaseChar(s[i])]

includes(s, sub) ==
    \E i \in 0..(Len(s) - Len(sub)) : SubSeq(s, i + 1, i + Len(sub)) = sub

\* "Find me a branch within 5 miles with 24hrs Drive-thru ATM service"
branchQuery ==
    <<"F", "i", "n", "d", " ", "m", "e", " ", "a", " ", "b", "r", "a", "n", "c", "h", " ",
      "w", "i", "t", "h", "i", "n", " ", "5", " ", "m", "i", "l", "e", "s", " ",
      "w", "i", "t", "h", " ", "2", "4", "h", "r", "s", " ",
      "D", "r", "i", "v", "e", "-", "t", "h", "r", "u", " ", "A", "T", "M", " ",
      "s", "e", "r", "v", "i", "c", "e">>

\* isBranchQuery that compares case-sensitively
isBranchQueryExact(query) == includes(query, branchQuery)

\* query.toLowerCase().includes(branchQuery.toLowerCase())
isBranchQuery(query) == includes(toLowerCase(query), toLowerCase(branchQuery))

\* what the callers send
ChatQueries == {<<>>, Hello, <<"p", "l", "s", " ">> \o toLowerCase(branchQuery)}
CustomerTypes == {"", "Regular", "customer", "Guest"}
GuidedRequests ==
    { <<"reasonSelection", Loan>>, <<"reasonSelection", <<>> >>,
      <<"timeSelection", IsoTime>>, <<"timeSelection", TwoPM>>,
      <<"locationSelection", Brooklyn>>, <<"locationSelection", Queens>>,
      <<"confirmation", ConfirmText>>,
      <<"restart", Loan>>, <<"", Loan>> }

----------------------------------------------------------------------------
(* State                                                                   *)

NumSessions == 1        \* session cookies in use
MaxInFlight == 1        \* requests the server processes at the same time
MaxRequests == 2        \* requests started in one behaviour of several turns
MaxTurns == 1           \* requests started in one behaviour of TurnSpec
MaxRacing == 2          \* requests the server processes at the same time in RaceSpec
MaxRaceRequests == 2    \* requests started in one behaviour of RaceSpec

Sessions == 1..NumSessions
ReqSlots == 1..MaxInFlight

\* RaceSpec: as many session cookies as requests at the same time
RaceSessions == 1..MaxRacing
RaceSlots == 1..MaxRacing

VARIABLES
    norm,           \* the normalizer harness: inputs and results of the pure functions
    sfConfigured,   \* SALESFORCE_ACCESS_TOKEN and SALESFORCE_INSTANCE_URL are set
    store,          \* the session store: session id -> saved session, if any
    crm,            \* the Appointment__c records the CRM holds, oldest first
    issued,         \* every record a create was issued for, successful or not
    reqs,           \* the requests being processed, and the last response of each slot
    started,        \* number of requests started
    client          \* the guided-flow state of the chat component in the browser

vars == <<norm, sfConfigured, store, crm, issued, reqs, started, client>>
serverVars == <<sfConfigured, store, crm, issued, reqs, started>>

\* req.session.guidedFlow as initGuidedFlowSession creates it
emptyGuidedFlow == [reason |-> NULL, date |-> NULL, time |-> NULL, location |-> NULL]

\* the session a request without a saved session gets from the middleware
freshSession ==
    [user |-> FALSE,
     hasChatHistory |-> FALSE, chatHistory |-> <<>>,
     hasGuidedFlow |-> FALSE, guidedFlow |-> emptyGuidedFlow]

noRecord ==
    [Reason_for_Visit__c |-> NULL, Appointment_Time__c |-> NULL,
     Location__c |-> NULL, Banker__c |-> NULL, Id |-> NULL, flow |-> "none"]

noResponse ==
    [sent |-> FALSE, uncaught |-> FALSE, status |-> 0, message |-> "", error |-> "",
     appointmentDetails |-> NoDetails("null"), missingFields |-> <<>>,
     timeSlots |-> FALSE, locationOptions |-> FALSE, messages |-> <<>>]

idleRequest ==
    [pc |-> "idle", kind |-> "none", sid |-> 1,
     session |-> freshSession, modified |-> FALSE,
     query |-> <<>>, guidedStep |-> "",
     queried |-> FALSE, llmOutput |-> <<>>, llmCalls |-> 0,
     parsedResponse |-> JsonNull,
     appointmentDetails |-> NoDetails("undefined"),
     evaluated |-> FALSE, missingFields |-> <<>>,
     dateTime |-> NULL, createData |-> noRecord, creates |-> 0,
     res |-> noResponse]

\* the guided-flow state of the component when it is mounted: the useState
\* initial values, no handler running, no fetch under way
initialClient ==
    [guidedStep |-> "reason",
     selectedReason |-> <<>>, selectedDateTime |-> <<>>, selectedLocation |-> <<>>,
     llmDateSuggestions |-> FALSE, llmLocationOptions |-> FALSE,
     isProcessing |-> FALSE,
     sessionError |-> FALSE,
     handler |-> "none", fetch |-> "none", req |-> 1,
     step |-> "", query |-> <<>>,
     lastMessage |-> ""]

\* express-session: the session of the cookie, or a new one
loadSession(sid) == IF store[sid].saved THEN store[sid].data ELSE freshSession

\* the server after start-up: no session, no request; the CRM holds no record
ServerInit ==
    /\ store = [sid \in Sessions \cup RaceSessions |->
                    [saved |-> FALSE, data |-> freshSession]]
    /\ crm = <<>>
    /\ issued = {}
    /\ reqs = [r \in ReqSlots \cup RaceSlots |-> idleRequest]
    /\ started = 0

Init ==
    /\ norm = normIdle
    /\ sfConfigured \in BOOLEAN
    /\ ServerInit
    /\ client = initialClient

\* a response with a body {message, error}
errorResponse(status, message, error) ==
    [noResponse EXCEPT !.sent = TRUE, !.status = status, !.message = message, !.error = error]

\* saveSession that leaves a session alone that the store already holds
saveSessionOnce(req) ==
    IF store[req.sid].saved THEN store
    ELSE [store EXCEPT ![req.sid] = [saved |-> TRUE, data |-> req.session]]

\* store.set: the session is written to the store
saveSession(req) == [store EXCEPT ![req.sid] = [saved |-> TRUE, data |-> req.session]]

\* respond without the save of the session middleware
respondUnsaved(r, req, response) ==
    /\ reqs' = [reqs EXCEPT ![r] = [req EXCEPT !.pc = "done", !.modified = FALSE, !.res = response]]
    /\ store' = store

\* res.json(...) / res.status(...).json(...): the response is sent, and the
\* session middleware saves the session when it changed since it was loaded or saved
respond(r, req, response) ==
    /\ reqs' = [reqs EXCEPT ![r] = [req EXCEPT !.pc = "done", !.modified = FALSE, !.res = response]]
    /\ store' = IF req.modified THEN saveSession(req) ELSE store

\* continue that does not wait for the CRM read before it goes on to the LLM
continueUnawaited(r, req, pc) ==
    reqs' = [reqs EXCEPT ![r] = [req EXCEPT !.pc = IF pc = "query" THEN "llm" ELSE pc]]

\* the handler goes on to its next await
continue(r, req, pc) ==
    reqs' = [reqs EXCEPT ![r] = [req EXCEPT !.pc = pc]]

\* a slot is free for a new request
free(r, limit) == reqs[r].pc \in {"idle", "done"} /\ started < limit

\* newRequest with one session for every cookie
newRequestShared(kind, sid, query, guidedStep) ==
    [idleRequest EXCEPT !.kind = kind, !.sid = sid,
                        !.session = loadSession(CHOOSE one \in DOMAIN store :
                                                    \A other \in DOMAIN store : one <= other),
                        !.query = query, !.guidedStep = guidedStep]

\* the request as the session middleware hands it to the handler
newRequest(kind, sid, query, guidedStep) ==
    [idleRequest EXCEPT !.kind = kind, !.sid = sid, !.session = loadSession(sid),
                        !.query = query, !.guidedStep = guidedStep]

\* pushHistory that starts the transcript over with the new entry
pushHistoryOnly(session, role, content) ==
    [session EXCEPT !.chatHistory = <<[role |-> role, content |-> content]>>]

\* req.session.chatHistory.push({role, content})
pushHistory(session, role, content) ==
    [session EXCEPT !.chatHistory = Append(@, [role |-> role, content |-> content])]

----------------------------------------------------------------------------
(* POST /api/chat                                                          *)

systemPrompt == <<Prose>>

\* JSON.stringify(predefinedResponse)
predefinedResponse == <<Span(JsonObject(TRUE, NoDetails("null")))>>

isRegularCustomer(customerType) == customerType = "Regular" \/ customerType = "customer"

requiredFields ==
    <<"Reason_for_Visit__c", "Appointment_Date__c", "Appointment_Time__c", "Location__c">>

\* missingFieldsOf that takes only null for missing, not the empty string
missingFieldsOfNull(appointmentDetails) ==
    LET isMissing(field) == appointmentDetails[field] = NULL
    IN SelectSeq(requiredFields, isMissing)

\* requiredFields.filter(field => !appointmentDetails[field])
missingFieldsOf(appointmentDetails) ==
    LET isMissing(field) == Falsy(appointmentDetails[field])
    IN SelectSeq(requiredFields, isMissing)

\* appointmentDetails.Banker__c && appointmentDetails.Banker__c.match(/^005/)
validBanker(banker) ==
    /\ ~Falsy(banker)
    /\ Len(banker) >= 3 /\ SubSeq(banker, 1, 3) = <<"0", "0", "5">>

\* Banker__c.match is not a function: the value is truthy and not a string
bankerMatchThrows(banker) == ~Falsy(banker) /\ ~isString(banker)

\* fullAppointmentData that stores the time as the LLM gave it, not the
\* combined timestamp
fullAppointmentDataRawTime(appointmentDetails, dateTime) ==
    [noRecord EXCEPT
        !.Reason_for_Visit__c = appointmentDetails.Reason_for_Visit__c,
        !.Appointment_Time__c = appointmentDetails.Appointment_Time__c,
        !.Location__c = appointmentDetails.Location__c,
        !.Banker__c = NULL,
        !.flow = "chat"]

fullAppointmentData(appointmentDetails, dateTime) ==
    [noRecord EXCEPT
        !.Reason_for_Visit__c = appointmentDetails.Reason_for_Visit__c,
        !.Appointment_Time__c = dateTime,
        !.Location__c = appointmentDetails.Location__c,
        !.Banker__c = IF validBanker(appointmentDetails.Banker__c)
                      THEN appointmentDetails.Banker__c ELSE NULL,
        !.flow = "chat"]

\* the id the CRM gives the next record
nextId == toString(Len(crm) + 1)

\* the catch block of the handler
chatCatch(message) ==
    IF mentionsSession(message)
    THEN errorResponse(401, "Session expired or invalid", "SESSION_EXPIRED")
    ELSE errorResponse(500, "Error processing chat request", message)

chatResponse(appointmentDetails, missingFields) ==
    [noResponse EXCEPT !.sent = TRUE, !.status = 200,
                       !.appointmentDetails = appointmentDetails,
                       !.missingFields = missingFields]

\* bookingStep without the check of the combined date/time
bookingStepUnchecked(missingFields, dateTime) ==
    IF missingFields # <<>> THEN "reply" ELSE "create"

\* what the handler does once missingFields is known (667-675): it replies,
\* rejects the date/time, or goes on to the create
bookingStep(missingFields, dateTime) ==
    IF missingFields # <<>> THEN "reply"
    ELSE IF dateTime = NULL THEN "invalidDateTime"
    ELSE "create"

\* from the arrival of the request to the first await
ChatRequest(r, limit, sid, query, customerType) ==
    /\ free(r, limit)
    /\ started' = started + 1
    /\ UNCHANGED <<norm, sfConfigured, crm, issued>>
    /\   LET req0 == newRequest("chat", sid, query, "")
             withHistory ==
                 IF req0.session.hasChatHistory THEN req0
                 ELSE [req0 EXCEPT !.session.hasChatHistory = TRUE,
                                   !.session.chatHistory =
                                       <<[role |-> "system", content |-> systemPrompt]>>,
                                   !.modified = TRUE]
             canned == [withHistory EXCEPT
                           !.session = pushHistory(pushHistory(@, "user", query),
                                                   "assistant", predefinedResponse),
                           !.modified = TRUE]
         IN IF Falsy(query) \/ customerType = ""
            THEN respond(r, req0, errorResponse(400, "Missing query or customerType", ""))
            ELSE IF isBranchQuery(query)
            THEN respond(r, canned, chatResponse(NoDetails("null"), <<>>))
            ELSE IF ~sfConfigured
            THEN respond(r, withHistory, errorResponse(500, "Salesforce connection failed", ""))
            ELSE IF isRegularCustomer(customerType)
            THEN continue(r, withHistory, "query") /\ UNCHANGED store
            ELSE /\ continue(r, [withHistory EXCEPT
                                    !.session = pushHistory(@, "user", query),
                                    !.modified = TRUE,
                                    !.llmCalls = @ + 1], "llm")
                 /\ UNCHANGED store

\* a request of any caller
ChatStart(r, limit) ==
    /\ \E sid \in Sessions, query \in ChatQueries, customerType \in CustomerTypes :
         ChatRequest(r, limit, sid, query, customerType)
    /\ UNCHANGED client

\* the CRM answers the query for the previous appointments
ChatQueryDone(r) ==
    /\ reqs[r].kind = "chat" /\ reqs[r].pc = "query"
    /\ UNCHANGED <<norm, client, sfConfigured, crm, issued, started>>
    /\ \E outcome \in QueryOutcomes :
         LET req == [reqs[r] EXCEPT !.queried = TRUE] IN
         IF ~outcome.ok
         THEN respond(r, req, chatCatch(outcome.message))
         ELSE /\ continue(r, [req EXCEPT !.session = pushHistory(@, "user", req.query),
                                         !.modified = TRUE,
                                         !.llmCalls = @ + 1], "llm")
              /\ UNCHANGED store

\* the LLM answers: transcript, parsing, slot evaluation, and the create is issued
ChatLLMDone(r, outcomes) ==
    /\ reqs[r].kind = "chat" /\ reqs[r].pc = "llm"
    /\ UNCHANGED <<norm, client, sfConfigured, crm, started>>
    /\ \E outcome \in outcomes :
         IF ~outcome.ok
         THEN respond(r, reqs[r], chatCatch(outcome.message)) /\ UNCHANGED issued
         ELSE
         LET llmOutput == outcome.text
             direct == JSONparse(llmOutput)
             extracted == JSONparse(extractJSON(llmOutput))
             parsedResponse == IF direct.ok THEN direct.val ELSE extracted.val
             appointmentDetails ==
                 IF parsedResponse.type = "object" THEN parsedResponse.appointmentDetails
                 ELSE NoDetails("undefined")
             missingFields == missingFieldsOf(appointmentDetails)
             dateTime == combineDateTime(appointmentDetails.Appointment_Date__c,
                                         appointmentDetails.Appointment_Time__c)
             \* the assistant entry is pushed and the session saved (639-648)
             req == [reqs[r] EXCEPT !.session = pushHistory(@, "assistant", llmOutput),
                                    !.modified = FALSE,
                                    !.llmOutput = llmOutput,
                                    !.parsedResponse = parsedResponse]
             evaluated == [req EXCEPT !.appointmentDetails = appointmentDetails,
                                      !.evaluated = TRUE,
                                      !.missingFields = missingFields]
         IN /\ store' = saveSession(req)
            /\ IF ~direct.ok /\ ~extracted.ok
               THEN /\ reqs' = [reqs EXCEPT ![r] =
                            [req EXCEPT !.pc = "done", !.res = chatCatch("Unexpected token")]]
                    /\ UNCHANGED issued
               ELSE IF parsedResponse.type = "null"
               THEN /\ reqs' = [reqs EXCEPT ![r] =
                            [req EXCEPT !.pc = "done",
                                        !.res = chatCatch("Cannot destructure property")]]
                    /\ UNCHANGED issued
               ELSE IF appointmentDetails.kind # "obj"
               THEN /\ reqs' = [reqs EXCEPT ![r] =
                            [req EXCEPT !.pc = "done",
                                        !.res = chatCatch("Cannot read properties of undefined")]]
                    /\ UNCHANGED issued
               ELSE IF bookingStep(missingFields, dateTime) = "reply"
               THEN /\ reqs' = [reqs EXCEPT ![r] =
                            [evaluated EXCEPT !.pc = "done",
                                              !.res = chatResponse(appointmentDetails, missingFields)]]
                    /\ UNCHANGED issued
               ELSE IF bookingStep(missingFields, dateTime) = "invalidDateTime"
               THEN /\ reqs' = [reqs EXCEPT ![r] =
                            [evaluated EXCEPT
                                !.pc = "done",
                                !.res = errorResponse(400,
                                    "Unable to create appointment due to invalid date or time format",
                                    "INVALID_DATETIME")]]
                    /\ UNCHANGED issued
               ELSE IF bankerMatchThrows(appointmentDetails.Banker__c)
               THEN /\ reqs' = [reqs EXCEPT ![r] =
                            [evaluated EXCEPT
                                !.pc = "done",
                                !.res = chatCatch("appointmentDetails.Banker__c.match is not a function")]]
                    /\ UNCHANGED issued
               ELSE LET data == fullAppointmentData(appointmentDetails, dateTime) IN
                    /\ reqs' = [reqs EXCEPT ![r] =
                            [evaluated EXCEPT !.pc = "create",
                                              !.dateTime = dateTime,
                                              !.createData = data,
                                              !.creates = @ + 1]]
                    /\ issued' = issued \cup {data}

\* the CRM answers the create
ChatCreateDone(r) ==
    /\ reqs[r].kind = "chat" /\ reqs[r].pc = "create"
    /\ UNCHANGED <<norm, client, sfConfigured, issued, started>>
    /\ \E outcome \in CreateOutcomes :
         LET req == reqs[r] IN
         IF outcome.ok /\ outcome.success
         THEN LET details == [req.appointmentDetails EXCEPT
                                 !.Id = nextId, !.Appointment_Time__c = req.dateTime]
              IN /\ crm' = Append(crm, [req.createData EXCEPT !.Id = nextId])
                 /\ respond(r, [req EXCEPT !.appointmentDetails = details],
                            chatResponse(details, req.missingFields))
         ELSE /\ crm' = crm
              /\ respond(r, req,
                    chatCatch(IF outcome.ok
                              THEN "Failed to create appointment in Salesforce: "
                              ELSE outcome.message))

----------------------------------------------------------------------------
(* POST /api/guidedFlow                                                    *)

\* the catch block of the handler
guidedCatch(message) == errorResponse(500, "Error in guidedFlow", message)

\* the catch block around the create
createCatch(message) == errorResponse(500, "Failed to create appointment", message)

\* responsePayload: the details, and whether timeSlots and locationOptions
\* are non-empty
responsePayload(parsed, details) ==
    [chatResponse(details, <<>>) EXCEPT
        !.timeSlots = parsed.timeSlots,
        !.locationOptions = parsed.locationOptions]

\* the switch on guidedStep: the slot the step stores the query in
\* applyGuidedStep that starts from an empty slot set at every step
applyGuidedStepAfresh(flowData, guidedStep, query) ==
    CASE guidedStep = "reasonSelection" -> [emptyGuidedFlow EXCEPT !.reason = query]
      [] guidedStep = "timeSelection" -> [emptyGuidedFlow EXCEPT !.time = query]
      [] guidedStep = "locationSelection" -> [emptyGuidedFlow EXCEPT !.location = query]
      [] OTHER -> flowData

\* the switch on guidedStep: what the step stores in req.session.guidedFlow
applyGuidedStep(flowData, guidedStep, query) ==
    CASE guidedStep = "reasonSelection" -> [flowData EXCEPT !.reason = query]
      [] guidedStep = "timeSelection" -> [flowData EXCEPT !.time = query]
      [] guidedStep = "locationSelection" -> [flowData EXCEPT !.location = query]
      [] OTHER -> flowData

newAppointment(flowData, dateTime) ==
    [noRecord EXCEPT
        !.Reason_for_Visit__c = flowData.reason,
        !.Appointment_Time__c = dateTime,
        !.Location__c = flowData.location,
        !.flow = "guided"]

\* from the arrival of the request {query, customerType, guidedStep} to the
\* LLM call
GuidedRequest(r, limit, sid, guidedStep, query, customerType) ==
    /\ free(r, limit)
    /\ started' = started + 1
    /\ UNCHANGED <<norm, sfConfigured, crm, issued>>
    /\   LET req0 == newRequest("guided", sid, query, guidedStep)
             flowData == applyGuidedStep(req0.session.guidedFlow, guidedStep, query)
             session == [req0.session EXCEPT !.hasGuidedFlow = TRUE,
                                             !.guidedFlow = flowData,
                                             !.hasChatHistory = TRUE]
             pushed == pushHistory(pushHistory(session, "system", systemPrompt), "user", query)
         IN IF Falsy(query) \/ customerType = "" \/ guidedStep = ""
            THEN respond(r, req0, errorResponse(400, "Missing query, customerType, or guidedStep", ""))
            ELSE /\ continue(r, [req0 EXCEPT !.session = pushed,
                                             !.modified = TRUE,
                                             !.llmCalls = @ + 1], "llm")
                 /\ UNCHANGED store

\* a request of any caller
GuidedStart(r, limit) ==
    /\ \E sid \in Sessions, request \in GuidedRequests, customerType \in CustomerTypes :
         GuidedRequest(r, limit, sid, request[1], request[2], customerType)
    /\ UNCHANGED client

\* the LLM answers: transcript, parsing, and at confirmation the create is issued
GuidedLLMDone(r, outcomes) ==
    /\ reqs[r].kind = "guided" /\ reqs[r].pc = "llm"
    /\ UNCHANGED <<norm, client, sfConfigured, crm, started>>
    /\ \E outcome \in outcomes :
         IF ~outcome.ok
         THEN respond(r, reqs[r], guidedCatch(outcome.message)) /\ UNCHANGED issued
         ELSE
         LET llmOutput == outcome.text
             direct == JSONparse(llmOutput)
             extracted == JSONparse(extractJSON(llmOutput))
             parsed == IF direct.ok THEN direct.val ELSE extracted.val
             req == [reqs[r] EXCEPT !.session = pushHistory(@, "assistant", llmOutput),
                                    !.modified = FALSE,
                                    !.llmOutput = llmOutput,
                                    !.parsedResponse = parsed]
             flowData == req.session.guidedFlow
             dateTime == flowData.time
             \* appointmentDetails || parsed.appointmentDetails || null
             details == IF parsed.type = "object" /\ parsed.appointmentDetails.kind = "obj"
                        THEN parsed.appointmentDetails ELSE NoDetails("null")
             finish(response) ==
                 /\ reqs' = [reqs EXCEPT ![r] = [req EXCEPT !.pc = "done", !.res = response]]
                 /\ UNCHANGED issued
         IN /\ store' = saveSession(req)
            /\ IF ~direct.ok /\ ~extracted.ok
               THEN finish(guidedCatch("Unexpected token"))
               ELSE IF parsed.type = "null"
               THEN finish(guidedCatch("Cannot read properties of null"))
               ELSE IF req.guidedStep # "confirmation"
               THEN finish(responsePayload(parsed, details))
               ELSE IF Falsy(dateTime)
               THEN finish(createCatch("Invalid date/time format"))
               ELSE IF ~sfConfigured
               THEN finish(createCatch("Salesforce credentials not configured in environment"))
               ELSE LET data == newAppointment(flowData, dateTime) IN
                    /\ reqs' = [reqs EXCEPT ![r] =
                            [req EXCEPT !.pc = "create",
                                        !.dateTime = dateTime,
                                        !.createData = data,
                                        !.creates = @ + 1]]
                    /\ issued' = issued \cup {data}

\* the CRM answers the create of the confirmation step
GuidedCreateDone(r) ==
    /\ reqs[r].kind = "guided" /\ reqs[r].pc = "create"
    /\ UNCHANGED <<norm, client, sfConfigured, issued, started>>
    /\ \E outcome \in CreateOutcomes :
         LET req == reqs[r]
             flowData == req.session.guidedFlow
         IN
         IF outcome.ok /\ outcome.success
         THEN LET details == [Details("obj", flowData.reason, NULL, req.dateTime,
                                      flowData.location, NULL) EXCEPT !.Id = nextId]
              IN /\ crm' = Append(crm, [req.createData EXCEPT !.Id = nextId])
                 /\ respond(r, [req EXCEPT !.session.guidedFlow = emptyGuidedFlow,
                                           !.modified = TRUE,
                                           !.appointmentDetails = details],
                            responsePayload(req.parsedResponse, details))
         ELSE /\ crm' = crm
              /\ respond(r, req,
                    createCatch(IF outcome.ok
                                THEN "Failed to create appointment in Salesforce"
                                ELSE outcome.message))

----------------------------------------------------------------------------
(* GET /api/chat/state, login, logout, expiry                              *)

\* req.session.chatHistory.find(msg => msg.role === 'assistant')
lastAssistantMessage(chatHistory) ==
    LET found == SelectSeq(chatHistory, LAMBDA msg : msg.role = "assistant")
    IN IF found = <<>> THEN <<>> ELSE <<Head(found)>>

\* the handler has no try/catch: an exception leaves it
uncaughtException ==
    [noResponse EXCEPT !.uncaught = TRUE, !.status = 500]

\* {messages: chatHistory.filter(msg => msg.role !== 'system'), appointmentDetails}
stateResponse(chatHistory, appointmentDetails) ==
    [chatResponse(appointmentDetails, <<>>) EXCEPT
        !.messages = SelectSeq(chatHistory, LAMBDA msg : msg.role # "system")]

ChatState(r, limit) ==
    /\ free(r, limit)
    /\ started' = started + 1
    /\ UNCHANGED <<norm, client, sfConfigured, crm, issued>>
    /\ \E sid \in Sessions :
         LET req == newRequest("state", sid, <<>>, "")
             found == lastAssistantMessage(req.session.chatHistory)
             parse == JSONparse(found[1].content)
             parsed == parse.val
             details == IF parsed.appointmentDetails.kind = "obj"
                        THEN parsed.appointmentDetails ELSE NoDetails("null")
         IN IF ~req.session.hasChatHistory
            THEN respond(r, req, chatResponse(NoDetails("null"), <<>>))
            ELSE IF found = <<>>
            THEN respond(r, req, stateResponse(req.session.chatHistory, NoDetails("null")))
            ELSE IF ~parse.ok \/ parsed.type = "null"
            THEN respond(r, req, uncaughtException)
            ELSE respond(r, [req EXCEPT !.parsedResponse = parsed],
                         stateResponse(req.session.chatHistory, details))

\* POST /api/auth/login with the static credentials
Login(sid) ==
    /\ ~loadSession(sid).user
    /\ store' = [store EXCEPT ![sid] =
                    [saved |-> TRUE, data |-> [loadSession(sid) EXCEPT !.user = TRUE]]]
    /\ UNCHANGED <<norm, client, sfConfigured, crm, issued, reqs, started>>

\* POST /api/auth/logout: req.session.destroy
Logout(sid) ==
    /\ store[sid].saved
    /\ store[sid].data.user
    /\ store' = [store EXCEPT ![sid] = [saved |-> FALSE, data |-> freshSession]]
    /\ UNCHANGED <<norm, client, sfConfigured, crm, issued, reqs, started>>

\* the cookie's maxAge passes: the store drops the session
Expire(sid) ==
    /\ store[sid].saved
    /\ ~store[sid].data.user
    /\ store' = [store EXCEPT ![sid] = [saved |-> FALSE, data |-> freshSession]]
    /\ UNCHANGED <<norm, client, sfConfigured, crm, issued, reqs, started>>

\* the server; the LLM answers a chat turn with one of `outcomes`, and at
\* most `limit` requests are started
Server(limit, outcomes) ==
    \/ \E r \in ReqSlots : ChatStart(r, limit)
    \/ \E r \in ReqSlots : ChatQueryDone(r)
    \/ \E r \in ReqSlots : ChatLLMDone(r, outcomes)
    \/ \E r \in ReqSlots : ChatCreateDone(r)
    \/ \E r \in ReqSlots : GuidedStart(r, limit)
    \/ \E r \in ReqSlots : GuidedLLMDone(r, GuidedLLMOutcomes)
    \/ \E r \in ReqSlots : GuidedCreateDone(r)
    \/ \E r \in ReqSlots : ChatState(r, limit)
    \/ \E sid \in Sessions : Login(sid)
    \/ \E sid \in Sessions : Logout(sid)
    \/ \E sid \in Sessions : Expire(sid)

\* behaviours of several turns
Next == Server(MaxRequests, CommonLLMOutcomes)

Spec == Init /\ [][Next]_vars

\* behaviours of few chat turns and state reads, with every LLM outcome
TurnNext ==
    \/ \E r \in ReqSlots : ChatStart(r, MaxTurns)
    \/ \E r \in ReqSlots : ChatQueryDone(r)
    \/ \E r \in ReqSlots : ChatLLMDone(r, LLMOutcomes)
    \/ \E r \in ReqSlots : ChatCreateDone(r)
    \/ \E r \in ReqSlots : ChatState(r, MaxTurns)
    \/ \E sid \in Sessions : Login(sid)
    \/ \E sid \in Sessions : Logout(sid)
    \/ \E sid \in Sessions : Expire(sid)

TurnSpec == Init /\ [][TurnNext]_vars

\* what the LLM returns in BookingRaceSpec: the same complete slot set, or one
\* that lacks the location
BookingLLMOutcomes ==
    { [ok |-> TRUE, message |-> "", text |-> t] :
        t \in { <<Span(JsonObject(TRUE, Details("obj", Loan, GoodDate, TwoPM, Brooklyn, NULL)))>>,
                <<Span(JsonObject(TRUE, Details("obj", Loan, GoodDate, TwoPM, NULL, NULL)))>> } }

\* behaviours of guest booking turns that the server processes at the same
\* time, for the same session or for different ones
BookingRaceNext ==
    \/ \E r \in RaceSlots, sid \in RaceSessions :
            ChatRequest(r, MaxRaceRequests, sid, Hello, "Guest") /\ UNCHANGED client
    \/ \E r \in RaceSlots : ChatLLMDone(r, BookingLLMOutcomes)
    \/ \E r \in RaceSlots : ChatCreateDone(r)

BookingRaceSpec == Init /\ [][BookingRaceNext]_vars

MaxReads == 3           \* requests started in one behaviour of StateSpec

\* what the LLM returns in StateSpec
StateLLMOutcomes ==
    { [ok |-> TRUE, message |-> "", text |-> t] :
        t \in { <<Span(JsonObject(TRUE, Details("obj", Loan, NULL, NULL, NULL, NULL)))>>,
                <<Span(JsonObject(TRUE, Details("obj", NULL, GoodDate, TwoPM, Brooklyn, NULL)))>>,
                <<Prose>>,
                <<Literal(JsonNull)>> } }

\* behaviours of guest chat turns and reads of the conversation state
StateNext ==
    \/ \E r \in ReqSlots, sid \in Sessions :
            ChatRequest(r, MaxReads, sid, Hello, "Guest") /\ UNCHANGED client
    \/ \E r \in ReqSlots : ChatLLMDone(r, StateLLMOutcomes)
    \/ \E r \in ReqSlots : ChatState(r, MaxReads)

StateSpec == Init /\ [][StateNext]_vars

\* what the LLM returns in RaceSpec
RaceLLMOutcomes ==
    { [ok |-> TRUE, message |-> "",
       text |-> <<Span(JsonObject(TRUE, Details("obj", Loan, NULL, NULL, NULL, NULL)))>>],
      [ok |-> FALSE, text |-> <<>>, message |-> "timeout"] }

\* the guided steps requested in RaceSpec
RaceGuidedRequests == {<<"reasonSelection", Loan>>, <<"timeSelection", IsoTime>>}

\* behaviours of guest chat turns and guided selections that the server processes
\* at the same time, for the same session or for different ones
RaceNext ==
    \/ \E r \in RaceSlots, sid \in RaceSessions :
            ChatRequest(r, MaxRaceRequests, sid, Hello, "Guest") /\ UNCHANGED client
    \/ \E r \in RaceSlots : ChatLLMDone(r, RaceLLMOutcomes)
    \/ \E r \in RaceSlots, sid \in RaceSessions, request \in RaceGuidedRequests :
            GuidedRequest(r, MaxRaceRequests, sid, request[1], request[2], "Guest")
            /\ UNCHANGED client
    \/ \E r \in RaceSlots : GuidedLLMDone(r, GuidedLLMOutcomes)

RaceSpec == Init /\ [][RaceNext]_vars

----------------------------------------------------------------------------
(* The guided flow of the chat component (ChatInterface.tsx) against the   *)
(* server: one browser, on the cookie of session 1                         *)

MaxSteps == 4           \* guided-flow requests the component sends in one behaviour

\* the session of the browser's cookie
ClientSession == CHOOSE sid \in Sessions : \A other \in Sessions : sid <= other

\* two of the GUIDED_REASONS
OpenAccount ==
    <<"O", "p", "e", "n", " ", "a", " ", "n", "e", "w", " ", "a", "c", "c", "o", "u", "n", "t">>
SaveForRetirement ==
    <<"S", "a", "v", "e", " ", "f", "o", "r", " ", "r", "e", "t", "i", "r", "e", "m", "e", "n", "t">>
GUIDED_REASONS == {OpenAccount, SaveForRetirement}

\* slot.raw of the suggested time slots, and the suggested locations
TimeSlotOptions == {IsoTime, TwoPM}
LocationOptions == {Brooklyn, Queens}

ConfirmAppointment ==
    <<"C", "o", "n", "f", "i", "r", "m", " ", "a", "p", "p", "o", "i", "n", "t", "m", "e", "n", "t">>

UserTypes == {"customer", "guest"}

\* customerType: userType === 'customer' ? 'Regular' : 'Guest'
clientCustomerType(userType) == IF userType = "customer" THEN "Regular" ELSE "Guest"

\* startHandler without setIsProcessing(true)
startHandlerUnflagged(c, handler, step, query) ==
    [c EXCEPT !.handler = handler, !.fetch = "sent", !.step = step, !.query = query]

\* a handler starts: it is processing, and its fetch is sent
startHandler(c, handler, step, query) ==
    [c EXCEPT !.isProcessing = TRUE, !.handler = handler, !.fetch = "sent",
              !.step = step, !.query = query]

\* the handler is over (finally: setIsProcessing(false))
endHandler(c) ==
    [c EXCEPT !.isProcessing = FALSE, !.handler = "none", !.fetch = "none"]

\* the assistant message a handler shows: data.response || its fallback text
shownMessage(data) == IF data.status = 200 THEN "response" ELSE "fallback"

\* resetGuidedState that keeps the selected reason
resetGuidedStateKeepReason(c) ==
    [c EXCEPT !.selectedDateTime = <<>>, !.selectedLocation = <<>>,
              !.llmDateSuggestions = FALSE, !.llmLocationOptions = FALSE]

\* "Reset guided flow states": the selections and the suggestions are emptied
resetGuidedState(c) ==
    [c EXCEPT !.selectedReason = <<>>, !.selectedDateTime = <<>>, !.selectedLocation = <<>>,
              !.llmDateSuggestions = FALSE, !.llmLocationOptions = FALSE]

\* the handlers after their await, on the body `data` of the response
onReasonData(c, data) ==
    [endHandler(c) EXCEPT
        !.llmDateSuggestions = IF data.status = 200 THEN data.timeSlots ELSE @,
        !.lastMessage = shownMessage(data),
        !.guidedStep = "date"]

onTimeData(c, data) ==
    [endHandler(c) EXCEPT
        !.llmLocationOptions = IF data.status = 200 THEN data.locationOptions ELSE @,
        !.lastMessage = shownMessage(data),
        !.guidedStep = "location"]

onLocationData(c, data) ==
    [endHandler(c) EXCEPT !.lastMessage = shownMessage(data), !.guidedStep = "confirmation"]

onConfirmData(c, data) ==
    [resetGuidedState(endHandler(c)) EXCEPT
        !.lastMessage = shownMessage(data), !.guidedStep = "completed"]

\* the catch block of a handler: an error message, the step stays
onCatch(c) == [endHandler(c) EXCEPT !.lastMessage = "error"]

\* the Cancel button is rendered at the confirmation step only
cancelAvailable == client.guidedStep = "confirmation" /\ ~client.isProcessing

\* Step 1: a reason button is clicked
handleReasonSelection ==
    /\ client.guidedStep = "reason" /\ ~client.isProcessing
    /\ \E reason \in GUIDED_REASONS :
         client' = startHandler([client EXCEPT !.selectedReason = reason],
                                "reason", "reasonSelection", reason)
    /\ UNCHANGED <<norm, serverVars>>

\* Step 2: a suggested slot is clicked
handleTimeSelection ==
    /\ client.guidedStep = "date" /\ client.llmDateSuggestions /\ ~client.isProcessing
    /\ \E raw \in TimeSlotOptions :
         client' = startHandler([client EXCEPT !.selectedDateTime = raw],
                                "time", "timeSelection", raw)
    /\ UNCHANGED <<norm, serverVars>>

\* Step 3: a suggested location is clicked
handleLocationSelection ==
    /\ client.guidedStep = "location" /\ client.llmLocationOptions /\ ~client.isProcessing
    /\ \E loc \in LocationOptions :
         client' = startHandler([client EXCEPT !.selectedLocation = loc],
                                "location", "locationSelection", loc)
    /\ UNCHANGED <<norm, serverVars>>

\* Step 4: Confirm Appointment is clicked
handleConfirmAppointment ==
    /\ client.guidedStep = "confirmation" /\ ~client.isProcessing
    /\ client' = startHandler(client, "confirm", "confirmation", ConfirmAppointment)
    /\ UNCHANGED <<norm, serverVars>>

\* Cancel is clicked
cancelConfirmation ==
    /\ cancelAvailable
    /\ client' = [resetGuidedState(client) EXCEPT !.guidedStep = "reason"]
    /\ UNCHANGED <<norm, serverVars>>

\* Book Another Appointment is clicked
bookAnotherAppointment ==
    /\ client.guidedStep = "completed"
    /\ client' = [client EXCEPT !.guidedStep = "reason"]
    /\ UNCHANGED <<norm, serverVars>>

\* callGuidedFlow: the request of the running handler reaches the server
callGuidedFlow(r, limit) ==
    /\ client.fetch = "sent" /\ client.handler # "send"
    /\ \E userType \in UserTypes :
         GuidedRequest(r, limit, ClientSession, client.step, client.query,
                       clientCustomerType(userType))
    /\ client' = [client EXCEPT !.fetch = "received", !.req = r]

\* the fetch is rejected (the server is not reached): the handler's catch
fetchRejected ==
    /\ client.fetch = "sent"
    /\ client' = onCatch(client)
    /\ UNCHANGED <<norm, serverVars>>

\* response.json() resolves: the handler goes on after its await
guidedFlowData ==
    /\ client.fetch = "received" /\ client.handler # "send"
    /\ reqs[client.req].pc = "done"
    /\ LET data == reqs[client.req].res IN
       client' = CASE client.handler = "reason" -> onReasonData(client, data)
                   [] client.handler = "time" -> onTimeData(client, data)
                   [] client.handler = "location" -> onLocationData(client, data)
                   [] OTHER -> onConfirmData(client, data)
    /\ UNCHANGED <<norm, serverVars>>

ClientNext ==
    \/ handleReasonSelection
    \/ handleTimeSelection
    \/ handleLocationSelection
    \/ handleConfirmAppointment
    \/ cancelConfirmation
    \/ bookAnotherAppointment
    \/ \E r \in ReqSlots : callGuidedFlow(r, MaxSteps)
    \/ fetchRejected
    \/ guidedFlowData
    \/ \E r \in ReqSlots : GuidedLLMDone(r, GuidedLLMOutcomes)
    \/ \E r \in ReqSlots : GuidedCreateDone(r)
    \/ \E sid \in Sessions : Expire(sid)

ClientSpec == Init /\ [][ClientNext]_vars

-----------------------------------------------------------------------------
(* ChatInterface.tsx: the free-form chat beside the guided flow            *)

MaxSends == 4           \* requests the component sends in one behaviour of ProcessingSpec

\* texts the user sends: typed into the input, or one of the prompt buttons
SendTexts == {Hello}

\* what the LLM returns to the turns the component sends
SendLLMOutcomes ==
    { [ok |-> TRUE, message |-> "",
       text |-> <<Span(JsonObject(TRUE, Details("obj", Loan, GoodDate, TwoPM, Brooklyn, NULL)))>>],
      [ok |-> FALSE, text |-> <<>>, message |-> "timeout"] }

\* what the LLM returns to the guided steps the component sends
SendGuidedOutcomes ==
    { [ok |-> TRUE, text |-> <<Span(JsonSuggestions)>>, message |-> ""],
      [ok |-> FALSE, text |-> <<>>, message |-> "timeout"] }

\* handleSend up to its await: blank text and a running handler return at once;
\* the input and the send controls are disabled while sessionError is set, so
\* the health check the handler makes when sessionError is set is never reached
handleSend ==
    /\ ~client.isProcessing /\ ~client.sessionError
    /\ \E text \in SendTexts :
         /\ ~Falsy(text)
         /\ client' = startHandler(client, "send", "", text)
    /\ UNCHANGED <<norm, serverVars>>

\* chatWithAssistant: the request of handleSend reaches the server
chatWithAssistant(r, limit) ==
    /\ client.fetch = "sent" /\ client.handler = "send"
    /\ \E userType \in UserTypes :
         ChatRequest(r, limit, ClientSession, client.query, clientCustomerType(userType))
    /\ client' = [client EXCEPT !.fetch = "received", !.req = r]

\* the response arrives: a status other than 2xx is thrown, and the catch sets
\* sessionError when the error names the session (status 401)
chatData ==
    /\ client.fetch = "received" /\ client.handler = "send"
    /\ reqs[client.req].pc = "done"
    /\ LET data == reqs[client.req].res IN
       client' = IF data.status = 200
                 THEN [endHandler(client) EXCEPT !.lastMessage = "response"]
                 ELSE [onCatch(client) EXCEPT !.sessionError = (data.status = 401)]
    /\ UNCHANGED <<norm, serverVars>>

\* "Try reconnecting": checkSessionHealth answers, healthy or not
tryReconnecting ==
    /\ client.sessionError
    /\ \E healthy \in BOOLEAN : client' = [client EXCEPT !.sessionError = ~healthy]
    /\ UNCHANGED <<norm, serverVars>>

\* the server takes a request on the first handler that is free
firstFree(r) == \A other \in RaceSlots : free(other, MaxSends) => r <= other

\* the fetch of the running handler settles at the server or is rejected
fetchSettles ==
    \/ \E r \in RaceSlots : firstFree(r) /\ callGuidedFlow(r, MaxSends)
    \/ \E r \in RaceSlots : firstFree(r) /\ chatWithAssistant(r, MaxSends)
    \/ fetchRejected

\* the server goes on with the request it holds
serverStep(r) ==
    \/ ChatQueryDone(r)
    \/ ChatLLMDone(r, SendLLMOutcomes)
    \/ ChatCreateDone(r)
    \/ GuidedLLMDone(r, SendGuidedOutcomes)
    \/ GuidedCreateDone(r)

ProcessingNext ==
    \/ handleSend
    \/ handleReasonSelection
    \/ handleTimeSelection
    \/ handleLocationSelection
    \/ handleConfirmAppointment
    \/ cancelConfirmation
    \/ bookAnotherAppointment
    \/ tryReconnecting
    \/ fetchSettles
    \/ \E r \in RaceSlots : serverStep(r)
    \/ chatData
    \/ guidedFlowData

\* every pending promise settles: the fetch, the server's awaits, the response
ProcessingFair ==
    /\ WF_vars(fetchSettles)
    /\ \A r \in RaceSlots : WF_vars(serverStep(r))
    /\ WF_vars(chatData)
    /\ WF_vars(guidedFlowData)

ProcessingSpec == Init /\ [][ProcessingNext]_vars /\ ProcessingFair

----------------------------------------------------------------------------
(* The normalizer on its own: the pure functions applied to bounded inputs *)

NormInputs ==
    { [normIdle EXCEPT !.pc = "in", !.shaped = TRUE,
                       !.h = x[1], !.m = x[2], !.mod = x[3],
                       !.date = GoodDate, !.time = timeText(x[1], x[2], x[3])] :
        x \in HourRange \X ({NoMinute} \cup { <<m>> : m \in MinuteRange }) \X Modifiers }
    \cup
    { [normIdle EXCEPT !.pc = "in", !.date = x[1], !.time = x[2]] :
        x \in DateInputs \X (OddTimeInputs \cup SampleTimeInputs) }

NormInit ==
    /\ norm \in NormInputs
    /\ sfConfigured = TRUE
    /\ ServerInit
    /\ client = initialClient

\* convertTo24HourTime(time)
Convert ==
    /\ norm.pc = "in"
    /\ norm' = [norm EXCEPT !.pc = "converted", !.time24 = convertTo24HourTime(norm.time)]
    /\ UNCHANGED <<client, serverVars>>

\* combineDateTime(date, time)
Combine ==
    /\ norm.pc = "converted"
    /\ norm' = [norm EXCEPT !.pc = "combined",
                            !.combined = combineDateTime(norm.date, norm.time)]
    /\ UNCHANGED <<client, serverVars>>

\* combineDateTime(date, c) on the result c of combineDateTime(date, time)
Recombine ==
    /\ norm.pc = "combined"
    /\ norm.combined # NULL
    /\ norm' = [norm EXCEPT !.pc = "recombined",
                            !.recombined = combineDateTime(norm.date, norm.combined)]
    /\ UNCHANGED <<client, serverVars>>

\* formatDateTimeForDisplay(c) on the result c of combineDateTime(date, time)
Format ==
    /\ norm.pc = "recombined"
    /\ \E separator \in DateTimeSeparators :
        norm' = [norm EXCEPT !.pc = "formatted",
                             !.formatted = formatDateTimeForDisplay(norm.combined, separator)]
    /\ UNCHANGED <<client, serverVars>>

\* parseDateTimeString on the display text, and its parts combined again
Reparse ==
    /\ norm.pc = "formatted"
    /\ LET parsed == parseDateTimeString(norm.formatted)
       IN  norm' = [norm EXCEPT !.pc = "reparsed",
                                !.reparsed = combineDateTime(parsed.date, parsed.time)]
    /\ UNCHANGED <<client, serverVars>>

NormNext == Convert \/ Combine \/ Recombine \/ Format \/ Reparse

NormSpec == NormInit /\ [][NormNext]_vars

----------------------------------------------------------------------------
(* getMostFrequent on its own, applied to bounded arrays                   *)

MaxArr == 4             \* longest array getMostFrequent is applied to

\* counts[val]: how often val occurs in arr
counts(arr, val) == Cardinality({ i \in DOMAIN arr : arr[i] = val })

\* the position at which val is first seen, i.e. at which counts gets the key
firstSeen(arr, val) ==
    CHOOSE i \in DOMAIN arr : arr[i] = val /\ \A j \in 1..(i - 1) : arr[j] # val

\* a key that is a canonical array index ("7", "10") is an integer key of an object
isIntegerKey(key) ==
    /\ key # <<>>
    /\ \A i \in DOMAIN key : IsDigit(key[i])
    /\ key[1] # "0" \/ Len(key) = 1

\* the order of Object.keys: integer keys ascending, then the others as inserted
keyBefore(arr, a, b) ==
    IF isIntegerKey(a) /\ isIntegerKey(b) THEN parseInt(a) < parseInt(b)
    ELSE IF isIntegerKey(a) # isIntegerKey(b) THEN isIntegerKey(a)
    ELSE firstSeen(arr, a) < firstSeen(arr, b)

RECURSIVE keysInOrder(_, _)
keysInOrder(arr, keys) ==
    IF keys = {} THEN <<>>
    ELSE LET first == CHOOSE a \in keys : \A b \in keys \ {a} : keyBefore(arr, a, b)
         IN  <<first>> \o keysInOrder(arr, keys \ {first})

ObjectKeys(arr) == keysInOrder(arr, { arr[i] : i \in DOMAIN arr })

\* keys.reduce((a, b) => counts[a] > counts[b] ? a : b), without an initial value
RECURSIVE reduceKeys(_, _, _)
reduceKeys(arr, a, rest) ==
    IF rest = <<>> THEN a
    ELSE reduceKeys(arr,
                    IF counts(arr, a) > counts(arr, Head(rest)) THEN a ELSE Head(rest),
                    Tail(rest))

getMostFrequent(arr) ==
    IF Len(arr) = 0 THEN NULL
    ELSE LET keys == ObjectKeys(arr) IN reduceKeys(arr, Head(keys), Tail(keys))

\* the values counted: branch names and two keys that read as integers
FreqValues == {Brooklyn, Manhattan, <<"7">>, <<"1", "0">>}

RECURSIVE arraysOf(_)
arraysOf(n) ==
    IF n = 0 THEN {<<>>}
    ELSE LET shorter == arraysOf(n - 1)
         IN  shorter \cup { Append(a, v) : a \in { x \in shorter : Len(x) = n - 1 },
                                           v \in FreqValues }

FreqInputs == { [normIdle EXCEPT !.pc = "counting", !.arr = a] : a \in arraysOf(MaxArr) }

FreqInit ==
    /\ norm \in FreqInputs
    /\ sfConfigured = TRUE
    /\ ServerInit
    /\ client = initialClient

\* getMostFrequent(arr)
MostFrequent ==
    /\ norm.pc = "counting"
    /\ norm' = [norm EXCEPT !.pc = "counted", !.mostFrequent = getMostFrequent(norm.arr)]
    /\ UNCHANGED <<client, serverVars>>

FreqNext == MostFrequent

FreqSpec == FreqInit /\ [][FreqNext]_vars

----------------------------------------------------------------------------
(* The booking step of the chat endpoint that checks slot availability     *)
(*                                                                         *)
(* A date is the number of its day; the Available_Slot__c table holds at   *)
(* most one record per date, time and branch.                              *)

MaxSlots == 2           \* most Available_Slot__c records in the table

SlotDays == 1..7
SlotTimes == {<<"0", "9", ":", "0", "0">>, <<"1", "4", ":", "0", "0">>}
SlotBranches == {Brooklyn, Queens}

\* the slot every booking of the harness asks for, but for its branch
requestedSlot(location) ==
    [Date__c |-> 3, Time__c |-> <<"1", "4", ":", "0", "0">>, Branch__c |-> location]

slotKey(slot) ==
    [Date__c |-> slot.Date__c, Time__c |-> slot.Time__c, Branch__c |-> slot.Branch__c]

SlotRecords ==
    [Date__c : SlotDays, Time__c : SlotTimes, Branch__c : SlotBranches,
     Is_Available__c : BOOLEAN]

RECURSIVE slotTables(_)
slotTables(n) ==
    IF n = 0 THEN {{}}
    ELSE LET smaller == slotTables(n - 1)
         IN  smaller \cup
             { t \cup {slot} : t \in { x \in smaller : Cardinality(x) = n - 1 },
                               slot \in SlotRecords }

SlotTables ==
    { t \in slotTables(MaxSlots) :
        \A a \in t : \A b \in t : slotKey(a) = slotKey(b) => a = b }

\* order of two strings of digits and colons of the same length
charRank(c) == CHOOSE x \in 1..11 : (DigitChars \o <<":">>)[x] = c

stringBefore(a, b) ==
    \E i \in 1..Len(a) : /\ \A j \in 1..(i - 1) : a[j] = b[j]
                         /\ charRank(a[i]) < charRank(b[i])

\* ORDER BY Date__c ASC, Time__c ASC; records equal in both come in any fixed order
slotBefore(a, b) ==
    \/ a.Date__c < b.Date__c
    \/ a.Date__c = b.Date__c /\ stringBefore(a.Time__c, b.Time__c)

RECURSIVE orderSlots(_)
orderSlots(records) ==
    IF records = {} THEN <<>>
    ELSE LET first == CHOOSE a \in records : \A b \in records : ~slotBefore(b, a)
         IN  <<first>> \o orderSlots(records \ {first})

\* LIMIT 5
limit5(records) == SubSeq(records, 1, IF Len(records) < 5 THEN Len(records) ELSE 5)

checkAppointmentAvailability(slots, appointments, date, time, location) ==
    LET key == [Date__c |-> date, Time__c |-> time, Branch__c |-> location]
        slotResult == { slot \in slots : slotKey(slot) = key }
    IN  IF slotResult # {} THEN (CHOOSE slot \in slotResult : TRUE).Is_Available__c
        ELSE key \notin appointments

updateSlotAvailability(slots, date, time, location, isAvailable) ==
    LET key == [Date__c |-> date, Time__c |-> time, Branch__c |-> location]
    IN  { slot \in slots : slotKey(slot) # key }
        \cup {[Date__c |-> date, Time__c |-> time, Branch__c |-> location,
               Is_Available__c |-> isAvailable]}

getSuggestedAlternatives(slots, date, location) ==
    LET startDate == date - 1
        endDate   == date + 3
        around == { slot \in slots : /\ slot.Date__c >= startDate
                                     /\ slot.Date__c <= endDate
                                     /\ slot.Is_Available__c }
        slotsResult == limit5(orderSlots({ slot \in around : slot.Branch__c = location }))
        otherBranchResult == limit5(orderSlots(around))
    IN  IF Len(slotsResult) > 0 THEN [slot \in DOMAIN slotsResult |-> slotKey(slotsResult[slot])]
        ELSE [slot \in DOMAIN otherBranchResult |-> slotKey(otherBranchResult[slot])]

SlotInputs ==
    { [normIdle EXCEPT !.pc = "booking", !.slots = x[1], !.location = x[2],
                       !.appointments = x[3]] :
        x \in SlotTables \X SlotBranches \X {{}, {requestedSlot(Brooklyn)}} }

SlotInit ==
    /\ norm \in SlotInputs
    /\ sfConfigured = TRUE
    /\ ServerInit
    /\ client = initialClient

\* await checkAppointmentAvailability(...): a failing query counts as available
CheckAvailability ==
    /\ norm.pc = "booking"
    /\ \E queryFails \in BOOLEAN :
        LET slot == requestedSlot(norm.location)
            isSlotAvailable ==
                \/ queryFails
                \/ checkAppointmentAvailability(norm.slots, norm.appointments,
                                                slot.Date__c, slot.Time__c, slot.Branch__c)
        IN  norm' = [norm EXCEPT !.pc = IF isSlotAvailable THEN "creating" ELSE "suggesting",
                                 !.isSlotAvailable = isSlotAvailable]
    /\ UNCHANGED <<client, serverVars>>

\* the slot is available: create the appointment, then mark the slot as taken
CreateAppointment ==
    /\ norm.pc = "creating"
    /\ LET slot == requestedSlot(norm.location) IN
       \E outcome \in {"created", "unsuccessful", "rejected"} : \E updateFails \in BOOLEAN :
        norm' = [norm EXCEPT
                    !.pc = IF outcome = "rejected" THEN "failed" ELSE "answered",
                    !.appointments = IF outcome = "created" THEN @ \cup {slot} ELSE @,
                    !.slots = IF outcome = "created" /\ ~updateFails
                              THEN updateSlotAvailability(@, slot.Date__c, slot.Time__c,
                                                          slot.Branch__c, FALSE)
                              ELSE @]
    /\ UNCHANGED <<client, serverVars>>

\* the slot is taken: the booking is rejected and alternatives are looked up;
\* a failing lookup gives an empty list
SuggestAlternatives ==
    /\ norm.pc = "suggesting"
    /\ \E queryFails \in BOOLEAN :
        LET slot == requestedSlot(norm.location)
        IN  norm' = [norm EXCEPT
                        !.pc = "answered",
                        !.missingFields = Append(@, "slot_availability"),
                        !.suggested_alternatives =
                            IF queryFails THEN <<>>
                            ELSE getSuggestedAlternatives(norm.slots, slot.Date__c,
                                                          slot.Branch__c)]
    /\ UNCHANGED <<client, serverVars>>

SlotNext == CheckAvailability \/ CreateAppointment \/ SuggestAlternatives

SlotSpec == SlotInit /\ [][SlotNext]_vars

----------------------------------------------------------------------------
(* The context the chat turn of a regular customer gives the LLM           *)

MaxPrior == 3           \* most previous appointments the CRM query returns

PreferredBankerId ==
    <<"a", "0", "A", "d", "M", "0", "0", "0", "0", "0", "2", "Z", "c", "s", "U", "U", "A", "S">>

\* previousAppointments.map(r => r[field]).filter(Boolean)
truthyValues(previousAppointments, field) ==
    LET value(i) == previousAppointments[i][field]
        RECURSIVE from(_)
        from(i) == IF i > Len(previousAppointments) THEN <<>>
                   ELSE (IF Falsy(value(i)) THEN <<>> ELSE <<value(i)>>) \o from(i + 1)
    IN  from(1)

\* the "Preferred Banker ID" and "Preferred Location" lines of contextData;
\* NULL where contextData has no such line
contextData(previousAppointments) ==
    IF Len(previousAppointments) = 0
    THEN [preferredBanker |-> NULL, preferredLocation |-> NULL]
    ELSE [preferredBanker |->
              IF Len(truthyValues(previousAppointments, "Banker__c")) > 0
              THEN PreferredBankerId ELSE NULL,
          preferredLocation |->
              IF Len(truthyValues(previousAppointments, "Location__c")) > 0
              THEN Brooklyn ELSE NULL]

\* the records conn.query returns for the contact
PriorRecords ==
    { [noRecord EXCEPT !.Location__c = x[1], !.Banker__c = x[2]] :
        x \in {NULL, Brooklyn, Manhattan} \X {NULL, PreferredBankerId, StaffBanker} }

RECURSIVE priorLists(_)
priorLists(n) ==
    IF n = 0 THEN {<<>>}
    ELSE LET shorter == priorLists(n - 1)
         IN  shorter \cup { Append(a, record) : a \in { x \in shorter : Len(x) = n - 1 },
                                                record \in PriorRecords }

ContextInputs ==
    { [normIdle EXCEPT !.pc = "queried", !.previousAppointments = a] : a \in priorLists(MaxPrior) }

ContextInit ==
    /\ norm \in ContextInputs
    /\ sfConfigured = TRUE
    /\ ServerInit
    /\ client = initialClient

\* the handler builds contextData from the records of the query
BuildContext ==
    /\ norm.pc = "queried"
    /\ norm' = [norm EXCEPT !.pc = "context",
                            !.contextData = contextData(norm.previousAppointments)]
    /\ UNCHANGED <<client, serverVars>>

ContextNext == BuildContext

ContextSpec == ContextInit /\ [][ContextNext]_vars

----------------------------------------------------------------------------
(* Properties                                                              *)

RequiredFieldNames ==
    {"Reason_for_Visit__c", "Appointment_Date__c", "Appointment_Time__c", "Location__c"}

allPresent(details) == \A f \in RequiredFieldNames : details[f] # NULL /\ details[f] # <<>>

isPM(mod) == mod \in {<<"P", "M">>, <<"p", "m">>}
isAM(mod) == mod \in {<<"A", "M">>, <<"a", "m">>}

\* C1: a CRM create is issued, by a chat turn or by a guided-flow step, only
\* for a slot set whose reason, date/time and location are all non-null.
C1_CreateOnlyWhenComplete ==
    \A data \in issued :
        /\ data.Reason_for_Visit__c # NULL
        /\ data.Appointment_Time__c # NULL
        /\ data.Location__c # NULL

\* C2: the CRM never holds two appointment records with the same timestamp
\* and the same location.
C2_NoDoubleBooking ==
    \A i, j \in DOMAIN crm :
        (/\ crm[i].Appointment_Time__c = crm[j].Appointment_Time__c
         /\ crm[i].Location__c = crm[j].Location__c) => i = j

C4_CombineFailsClosed ==
    norm.pc \in {"combined", "recombined"} =>
        LET dateOk == norm.date # NULL /\ MatchPattern(norm.date, dateRegex)
            timeOk == norm.time # NULL /\ norm.time24 # NULL
        IN /\ (~dateOk \/ ~timeOk) => norm.combined = NULL
           /\ norm.combined # NULL => (dateOk /\ timeOk)

\* C5: convertTo24HourTime returns an error when the hour is above 23, when a
\* modifier is present and the hour is above 12, or when the minute is above
\* 59; every other result has an hour in 0..23 and a minute in 0..59.
C5_RejectsOutOfRange ==
    (norm.shaped /\ norm.pc # "in") =>
        /\ (\/ norm.h > 23
            \/ norm.mod # NULL /\ norm.h > 12
            \/ norm.m # NoMinute /\ norm.m[1] > 59) => norm.time24 = NULL
        /\ norm.time24 # NULL => /\ resultHour(norm.time24) \in 0..23
                                 /\ resultMinute(norm.time24) \in 0..59

\* C6: for an accepted time with hour h and minute m, the resulting hour is
\* h + 12 with PM and h # 12, 0 with AM and h = 12, and h otherwise; the
\* resulting minute is m, or 0 when the minute is omitted.
C6_TwelveHourConversion ==
    (norm.shaped /\ norm.pc # "in" /\ norm.time24 # NULL) =>
        /\ resultHour(norm.time24) =
              (IF isPM(norm.mod) /\ norm.h # 12 THEN norm.h + 12
               ELSE IF isAM(norm.mod) /\ norm.h = 12 THEN 0
               ELSE norm.h)
        /\ resultMinute(norm.time24) = (IF norm.m = NoMinute THEN 0 ELSE norm.m[1])

C6_Witness ==
    /\ norm.shaped /\ norm.pc = "converted"
    /\ norm.h = 12 /\ norm.mod = <<"P", "M">> /\ norm.m = <<30>>
    /\ norm.time24 # NULL

\* C7: combineDateTime is idempotent on its own output: with
\* c = combineDateTime(d, t) a timestamp, combineDateTime(d, c) = c.
C7_CombineIdempotent ==
    norm.pc = "recombined" => norm.recombined = norm.combined

C7_Witness ==
    /\ norm.pc = "recombined" /\ norm.shaped
    /\ norm.h = 9 /\ norm.m = <<30>> /\ norm.mod = <<"A", "M">>
    /\ norm.recombined # NULL

\* C8: a chat turn whose LLM text yields an object without appointmentDetails
\* (the fallback's empty object included) ends with a non-error response
\* carrying empty appointment details, and creates no record.
C8_DegradesToEmptyDetails ==
    \A r \in ReqSlots :
        LET req == reqs[r] IN
        (/\ req.kind = "chat"
         /\ req.llmOutput # <<>>
         /\ req.parsedResponse.type = "object"
         /\ req.parsedResponse.appointmentDetails.kind = "undefined")
        => /\ req.pc = "done"
           /\ req.res.sent
           /\ req.res.status = 200
           /\ \A f \in RequiredFieldNames : req.res.appointmentDetails[f] = NULL
           /\ req.creates = 0

\* C9: a chat turn, a guided-flow step and a conversation-state read each end
\* with a structured response, never with an exception that leaves the handler.
C9_StructuredResponse ==
    \A r \in ReqSlots :
        reqs[r].pc = "done" => (reqs[r].res.sent /\ ~reqs[r].res.uncaught)

\* C10: after a chat turn's slot evaluation, missingFields is exactly the set
\* of required fields that are null or empty in the turn's slot set, and a
\* turn with a missing field issues no create.
C10_MissingFieldsExact ==
    \A r \in ReqSlots :
        LET req == reqs[r]
            missing == { f \in RequiredFieldNames :
                            req.appointmentDetails[f] \in {NULL, <<>>} }
        IN (req.kind = "chat" /\ req.evaluated) =>
              /\ { req.missingFields[i] : i \in DOMAIN req.missingFields } = missing
              /\ Len(req.missingFields) = Cardinality(missing)
              /\ req.res.sent /\ req.res.status = 200 => req.res.missingFields = req.missingFields
              /\ missing # {} => req.creates = 0

C10_Witness ==
    \E r \in ReqSlots :
        /\ reqs[r].kind = "chat" /\ reqs[r].pc = "done" /\ reqs[r].evaluated
        /\ reqs[r].missingFields = <<"Appointment_Date__c", "Appointment_Time__c", "Location__c">>
        /\ reqs[r].res.missingFields = reqs[r].missingFields
        /\ reqs[r].creates = 0

\* C11: when the CRM accepts the create of a chat turn, exactly one record is
\* added, and the turn answers 200 with missingFields empty and appointment
\* details that carry the id of the new record and its timestamp, the
\* canonical combination of the date and the time the LLM returned.
C11_BookingCreatesOneRecord ==
    [][\A r \in ReqSlots :
          (/\ reqs[r].kind = "chat" /\ reqs[r].pc = "create"
           /\ reqs'[r].pc = "done"
           /\ Len(crm') > Len(crm))
          => LET res == reqs'[r].res
                 record == crm'[Len(crm')]
                 parsed == reqs[r].parsedResponse.appointmentDetails
             IN /\ Len(crm') = Len(crm) + 1
                /\ reqs'[r].creates = 1
                /\ res.sent /\ res.status = 200
                /\ res.missingFields = <<>>
                /\ res.appointmentDetails.Id # NULL
                /\ res.appointmentDetails.Id = record.Id
                /\ \A i \in 1..Len(crm) : crm[i].Id # record.Id
                /\ res.appointmentDetails.Appointment_Time__c = record.Appointment_Time__c
                /\ record.Appointment_Time__c =
                       combineDateTime(parsed.Appointment_Date__c, parsed.Appointment_Time__c)
                /\ MatchPattern(record.Appointment_Time__c, isoRegex)
                /\ record.Reason_for_Visit__c = parsed.Reason_for_Visit__c
                /\ record.Location__c = parsed.Location__c
      ]_vars

C11_Witness ==
    \E r \in ReqSlots :
        /\ reqs[r].kind = "chat" /\ reqs[r].pc = "done" /\ reqs[r].creates = 1
        /\ reqs[r].res.status = 200
        /\ reqs[r].res.appointmentDetails.Id # NULL
        /\ reqs[r].res.appointmentDetails.Appointment_Time__c =
              GoodDate \o <<"T", "1", "4", ":", "0", "0", ":", "0", "0", ".", "0", "0", "0", "Z">>
        /\ Len(crm) = 1

\* the assistant entries of a transcript, oldest first
assistantEntries(chatHistory) ==
    SelectSeq(chatHistory, LAMBDA msg : msg.role = "assistant")

\* the slot set an assistant entry of the transcript carries
slotsOf(content) ==
    LET direct == JSONparse(content)
        extracted == JSONparse(extractJSON(content))
        parsed == IF direct.ok THEN direct.val ELSE extracted.val
    IN IF parsed.type = "object" /\ parsed.appointmentDetails.kind = "obj"
       THEN parsed.appointmentDetails
       ELSE NoDetails("null")

\* C12: across consecutive turns of a session, a required slot that the
\* still incomplete slot set of the previous turn holds is held by the slot
\* set of the next chat turn too, and is not among its missingFields, also
\* when the LLM output of that turn does not supply it.
C12_SlotsMerged ==
    \A r \in ReqSlots :
        LET req == reqs[r]
            entries == assistantEntries(req.session.chatHistory)
        IN (/\ req.kind = "chat" /\ req.pc = "done" /\ req.evaluated
            /\ Len(entries) >= 2)
           => LET previous == slotsOf(entries[Len(entries) - 1].content)
              IN \A f \in RequiredFieldNames :
                    (/\ missingFieldsOf(previous) # <<>>
                     /\ ~Falsy(previous[f]))
                    => /\ ~Falsy(req.appointmentDetails[f])
                       /\ \A i \in DOMAIN req.missingFields : req.missingFields[i] # f

\* C13: the guided steps are applied to the working slot set of a session in
\* the order reason, time, location, confirmation: a time is stored only when
\* a reason is, a location only when a time is, and the confirmation issues
\* its create only when a location is, whatever guidedStep the requests carry.
C13_GuidedStepOrder ==
    /\ \A sid \in Sessions :
          LET flowData == store[sid].data.guidedFlow IN
          /\ flowData.time # NULL => flowData.reason # NULL
          /\ flowData.location # NULL => flowData.time # NULL
    /\ \A data \in issued :
          data.flow = "guided" => data.Location__c # NULL

\* the working slot set the server keeps for the browser's session
clientFlowData == store[ClientSession].data.guidedFlow

\* the handler `handler` goes on after its await in this step
resumes(handler) ==
    /\ client.handler = handler /\ client.fetch = "received"
    /\ client'.handler = "none"

\* C14: when a reason was selected at the Reason step and its handler is
\* over, the step is Time (date), the session's working slot set holds the
\* selected reason, and no time is set in it.
C14_ReasonThenTime ==
    (/\ client.guidedStep = "date" /\ ~client.isProcessing
     /\ store[ClientSession].saved)
    => /\ clientFlowData.reason = client.selectedReason
       /\ clientFlowData.time = NULL

\* C15: when the confirmation request ends in a failure (CRM failure,
\* unsuccessful create, missing timestamp), the step stays at Confirmation,
\* an error is shown, and the working slot set, the client's selections and
\* the session's guidedFlow, is unchanged.
C15_FailedConfirmationStays ==
    [][/\ (/\ resumes("confirm")
           /\ reqs[client.req].res.status = 500
           /\ reqs[client.req].res.message = "Failed to create appointment")
          => /\ client'.guidedStep = "confirmation"
             /\ client'.lastMessage = "error"
             /\ client'.selectedReason = client.selectedReason
             /\ client'.selectedDateTime = client.selectedDateTime
             /\ client'.selectedLocation = client.selectedLocation
       /\ \A r \in ReqSlots :
             (/\ reqs[r].kind = "guided" /\ reqs[r].guidedStep = "confirmation"
              /\ reqs[r].pc # "done" /\ reqs'[r].pc = "done"
              /\ reqs'[r].res.message = "Failed to create appointment")
             => store'[reqs[r].sid].data.guidedFlow = reqs[r].session.guidedFlow
      ]_vars

\* C16: when the CRM accepts the create of the Confirmation step, the
\* session's guidedFlow is cleared (reason, date, time and location null),
\* and once the handler is over the step is Completed and the client's
\* selected reason, time and location are empty.
C16_ConfirmedBookingClears ==
    [][/\ \A r \in ReqSlots :
             (/\ reqs[r].kind = "guided" /\ reqs[r].pc = "create"
              /\ reqs'[r].pc = "done" /\ Len(crm') > Len(crm))
             => /\ store'[reqs[r].sid].saved
                /\ store'[reqs[r].sid].data.guidedFlow = emptyGuidedFlow
                /\ reqs'[r].res.status = 200
                /\ reqs'[r].res.appointmentDetails.Id # NULL
       /\ (/\ resumes("confirm")
           /\ reqs[client.req].res.status = 200
           /\ reqs[client.req].res.appointmentDetails.Id # NULL)
          => /\ client'.guidedStep = "completed"
             /\ client'.selectedReason = <<>>
             /\ client'.selectedDateTime = <<>>
             /\ client'.selectedLocation = <<>>
             /\ clientFlowData.reason = NULL /\ clientFlowData.date = NULL
             /\ clientFlowData.time = NULL /\ clientFlowData.location = NULL
      ]_vars

C16_Witness ==
    /\ client.guidedStep = "completed" /\ ~client.isProcessing
    /\ client.lastMessage = "response"
    /\ client.selectedReason = <<>>
    /\ Len(crm) = 1 /\ crm[1].flow = "guided"
    /\ crm[1].Reason_for_Visit__c \in GUIDED_REASONS
    /\ store[ClientSession].saved /\ clientFlowData = emptyGuidedFlow

\* C17: at every guided step where no handler is running a cancel is
\* available, and a cancel leaves the step at Reason with the partial slot
\* set discarded: the client's selections are empty and the session's
\* guidedFlow holds no value of the cancelled attempt.
C17_CancelDiscards ==
    [][/\ (client.guidedStep \in {"reason", "date", "location", "confirmation"}
           /\ ~client.isProcessing) => cancelAvailable
       /\ (cancelAvailable /\ client'.guidedStep = "reason")
          => /\ client'.selectedReason = <<>>
             /\ client'.selectedDateTime = <<>>
             /\ client'.selectedLocation = <<>>
             /\ store'[ClientSession].data.guidedFlow = emptyGuidedFlow
      ]_vars

\* C18: a chat turn of a session without a logged-in user issues no CRM
\* query (and so gives the LLM no context of previous appointments),
\* whatever customerType the request carries.
C18_GuestNoQuery ==
    \A r \in ReqSlots :
        (/\ reqs[r].kind = "chat"
         /\ reqs[r].pc = "query" \/ reqs[r].queried)
        => reqs[r].session.user

\* C19: a chat turn (a request that carries a query and a customerType) whose
\* query contains the branch-locator phrase, in any letter case, answers 200
\* with the fixed reply, null appointment details and missingFields empty; it
\* calls no LLM, issues no CRM query and no create, whatever the session holds.
C19_CannedBranchReply ==
    \A r \in ReqSlots :
        LET req == reqs[r] IN
        (/\ req.kind = "chat"
         /\ includes(toLowerCase(req.query), toLowerCase(branchQuery))
         /\ ~(req.res.status = 400 /\ req.res.message = "Missing query or customerType"))
        => /\ req.pc = "done"
           /\ req.res.sent /\ req.res.status = 200
           /\ req.res.appointmentDetails = NoDetails("null")
           /\ req.res.missingFields = <<>>
           /\ req.llmCalls = 0 /\ req.llmOutput = <<>>
           /\ ~req.queried
           /\ req.creates = 0
           /\ LET h == req.session.chatHistory IN
              /\ Len(h) >= 2
              /\ h[Len(h)] = [role |-> "assistant", content |-> predefinedResponse]
              /\ h[Len(h) - 1] = [role |-> "user", content |-> req.query]

C19_Witness ==
    \E r \in ReqSlots :
        /\ reqs[r].kind = "chat" /\ reqs[r].pc = "done"
        /\ reqs[r].query # branchQuery
        /\ includes(toLowerCase(reqs[r].query), toLowerCase(branchQuery))
        /\ reqs[r].res.status = 200
        /\ reqs[r].llmCalls = 0
        /\ Len(crm) = 1

\* the id starts with the staff-identifier prefix
hasStaffPrefix(banker) ==
    /\ banker # NULL /\ banker # NumberValue
    /\ Len(banker) >= 3
    /\ banker[1] = "0" /\ banker[2] = "0" /\ banker[3] = "5"

\* C20: a booking turn (all required fields present, date and time combine)
\* issues its create whatever banker id the LLM extracted; the record carries
\* the banker id when it starts with '005' and no banker id otherwise, and an
\* invalid banker id does not turn the response into an error.
C20_InvalidBankerDropped ==
    \A r \in ReqSlots :
        LET req == reqs[r]
            parsed == req.parsedResponse.appointmentDetails
        IN (/\ req.kind = "chat" /\ req.evaluated
            /\ req.missingFields = <<>>
            /\ combineDateTime(parsed.Appointment_Date__c, parsed.Appointment_Time__c) # NULL)
           => /\ req.creates = 1
              /\ req.createData.Banker__c =
                    (IF hasStaffPrefix(parsed.Banker__c) THEN parsed.Banker__c ELSE NULL)
              /\ req.pc = "done" =>
                    \/ req.res.status = 200
                    \/ req.res.error \in
                          {"Failed to create appointment in Salesforce: "} \cup CollaboratorErrors
                    \/ req.res.error = "SESSION_EXPIRED"

----------------------------------------------------------------------------
\* C21: getMostFrequent returns null for an empty array; for any other array
\* it returns a value whose count is maximal and, among the values of
\* maximal count, the one seen first in the array.
C21_MostFrequentFirstSeen ==
    norm.pc = "counted" =>
        IF norm.arr = <<>> THEN norm.mostFrequent = NULL
        ELSE /\ \E i \in DOMAIN norm.arr : norm.arr[i] = norm.mostFrequent
             /\ \A i \in DOMAIN norm.arr :
                    /\ counts(norm.arr, norm.arr[i]) <= counts(norm.arr, norm.mostFrequent)
                    /\ counts(norm.arr, norm.arr[i]) = counts(norm.arr, norm.mostFrequent)
                        => firstSeen(norm.arr, norm.mostFrequent) <= i

----------------------------------------------------------------------------
\* C30: for every canonical timestamp c that combineDateTime produces,
\* parseDateTimeString(formatDateTimeForDisplay(c)) yields a date and a time
\* that combineDateTime puts together to c again.
C30_DisplayRoundTrip ==
    norm.pc = "reparsed" => norm.reparsed = norm.combined

----------------------------------------------------------------------------
\* C29: when a booking is rejected because the slot is taken, the response
\* carries at least one suggested alternative: available slots near the
\* requested date at the same location, or at any branch when there are none.
C29_RejectionSuggestsAlternative ==
    (norm.pc = "answered" /\ ~norm.isSlotAvailable) =>
        /\ Len(norm.suggested_alternatives) >= 1
        /\ \A i \in DOMAIN norm.suggested_alternatives :
            \E slot \in norm.slots :
                /\ slot.Is_Available__c
                /\ slotKey(slot) = norm.suggested_alternatives[i]

----------------------------------------------------------------------------
isPrefix(a, b) == Len(a) <= Len(b) /\ SubSeq(b, 1, Len(a)) = a

\* the step is the start of a request, which slot r takes
startsRequest(r) ==
    /\ started' # started
    /\ reqs[r].pc \in {"idle", "done"}
    /\ \A other \in DOMAIN reqs \ {r} : reqs'[other] = reqs[other]

\* the step is a further step of the request in slot r
continuesRequest(r) == reqs[r].pc \notin {"idle", "done"} /\ reqs'[r] # reqs[r]

\* C22: within a session, every chat turn and every guided step only appends
\* to the transcript: the transcript the request found is a prefix of the one
\* it works on after each of its steps, and what it saves is that transcript.
\* After logout the transcript of the session is empty.
C22_TranscriptAppendOnly ==
    [][ /\ \A r \in ReqSlots :
            continuesRequest(r)
                => /\ isPrefix(reqs[r].session.chatHistory, reqs'[r].session.chatHistory)
                   /\ store' # store
                        => store'[reqs'[r].sid].data.chatHistory
                               = reqs'[r].session.chatHistory
        /\ started' # started
            => \E r \in ReqSlots :
                /\ startsRequest(r)
                /\ reqs'[r].kind \in {"chat", "guided"}
                    => isPrefix(loadSession(reqs'[r].sid).chatHistory,
                                reqs'[r].session.chatHistory)
                /\ store' # store
                    => store'[reqs'[r].sid].data.chatHistory = reqs'[r].session.chatHistory
        /\ \A sid \in Sessions :
            (started' = started /\ UNCHANGED reqs /\ store[sid].data.user /\ ~store'[sid].data.user)
                => /\ ~store'[sid].saved
                   /\ store'[sid].data.chatHistory = <<>> ]_vars

\* two operations have appended to the saved transcript of a session
C22_Witness ==
    \E sid \in Sessions :
        /\ store[sid].saved
        /\ Len(store[sid].data.chatHistory) >= 5
        /\ \E r \in ReqSlots : reqs[r].pc = "done" /\ reqs[r].sid = sid
                               /\ reqs[r].session = store[sid].data

----------------------------------------------------------------------------
----------------------------------------------------------------------------
\* C24: a chat turn or guided step for one session never changes the
\* transcript or the working slot set of any other session: a step changes the
\* stored session of the acting request only, and a request starts from the
\* transcript and the slot set of its own session.
C24_OtherSessionsUntouched ==
    [][ /\ \A sid \in RaceSessions :
            store'[sid] # store[sid]
                => \E r \in RaceSlots : /\ continuesRequest(r) \/ startsRequest(r)
                                        /\ reqs'[r].sid = sid
        /\ started' # started
            => \E r \in RaceSlots :
                /\ startsRequest(r)
                /\ isPrefix(loadSession(reqs'[r].sid).chatHistory,
                            reqs'[r].session.chatHistory)
                /\ reqs'[r].session.guidedFlow
                       = IF reqs'[r].kind = "guided"
                         THEN applyGuidedStep(loadSession(reqs'[r].sid).guidedFlow,
                                              reqs'[r].guidedStep, reqs'[r].query)
                         ELSE loadSession(reqs'[r].sid).guidedFlow ]_vars

\* two sessions hold different transcripts and slot sets, each written by a
\* request of its own
C24_Witness ==
    \E one \in RaceSessions, other \in RaceSessions :
        /\ one # other
        /\ store[one].saved /\ store[other].saved
        /\ store[one].data.guidedFlow.reason = Loan
        /\ store[other].data.guidedFlow = emptyGuidedFlow
        /\ store[one].data.chatHistory # store[other].data.chatHistory
        /\ \E r \in RaceSlots : reqs[r].pc = "done" /\ reqs[r].sid = one
                                /\ reqs[r].session = store[one].data
        /\ \E r \in RaceSlots : reqs[r].pc = "done" /\ reqs[r].sid = other
                                /\ reqs[r].session = store[other].data

----------------------------------------------------------------------------
\* C25: per chat turn the CRM create is invoked at most once and the LLM at
\* most once; when the create fails, the failure is returned to the caller
\* with the underlying message, and no record exists for that turn.
C25_CreateFailureSurfaced ==
    [][ \A r \in ReqSlots :
            reqs'[r].kind = "chat"
                => /\ reqs'[r].creates <= 1
                   /\ reqs'[r].llmCalls <= 1
                   /\ (/\ reqs[r].pc = "create"
                       /\ reqs'[r].pc = "done"
                       /\ reqs'[r].res.status # 200)
                        => /\ crm' = crm
                           /\ reqs'[r].res.status = 500
                           /\ reqs'[r].res.error \in
                                CollaboratorErrors
                                \cup {"Failed to create appointment in Salesforce: "} ]_vars

----------------------------------------------------------------------------
\* C26: in a chat turn that is not answered from the canned reply, the CRM
\* read has completed before the LLM is invoked, and the CRM create is issued
\* only after the LLM response has been received and parsed; at any time the
\* turn waits for at most one of the three calls.
C26_CallsInOrder ==
    \A r \in ReqSlots :
        reqs[r].kind = "chat"
            => /\ reqs[r].pc = "query"
                    => /\ ~reqs[r].queried
                       /\ reqs[r].llmCalls = 0 /\ reqs[r].llmOutput = <<>>
                       /\ reqs[r].creates = 0
               /\ reqs[r].pc = "llm"
                    => /\ reqs[r].llmCalls = 1 /\ reqs[r].llmOutput = <<>>
                       /\ ~reqs[r].evaluated
                       /\ reqs[r].creates = 0
               /\ reqs[r].pc = "create"
                    => /\ reqs[r].llmCalls = 1 /\ reqs[r].llmOutput # <<>>
                       /\ reqs[r].parsedResponse.type = "object"
                       /\ reqs[r].evaluated
                       /\ reqs[r].creates = 1
               /\ reqs[r].creates > 0
                    => reqs[r].llmOutput # <<>> /\ reqs[r].evaluated
               /\ reqs[r].llmCalls > 0
                    => reqs[r].pc \in {"llm", "create", "done"}

\* a turn of a regular customer whose read and LLM call are over and whose
\* create is under way
C26_Witness ==
    \E r \in ReqSlots :
        /\ reqs[r].kind = "chat"
        /\ reqs[r].pc = "create"
        /\ reqs[r].queried
        /\ reqs[r].llmCalls = 1
        /\ reqs[r].creates = 1

----------------------------------------------------------------------------
\* C27: a chat turn answers SESSION_EXPIRED exactly when the session is
\* absent or expired at the start of the turn, and then before any transcript
\* mutation and any LLM or CRM call; no other failure of the turn, an LLM or
\* a CRM error, is reported as SESSION_EXPIRED.
C27_SessionExpiredOnlyAtStart ==
    [][ \A r \in ReqSlots :
            /\ (reqs'[r].kind = "chat" /\ reqs'[r].res.error = "SESSION_EXPIRED")
                => /\ reqs'[r].llmCalls = 0
                   /\ ~reqs'[r].queried
                   /\ reqs'[r].creates = 0
                   /\ reqs'[r].session.chatHistory = <<>>
            /\ (/\ started' # started /\ reqs'[r] # reqs[r]
                /\ reqs'[r].kind = "chat"
                /\ reqs'[r].res.status # 400
                /\ ~store[reqs'[r].sid].saved)
                => reqs'[r].res.error = "SESSION_EXPIRED" ]_vars

----------------------------------------------------------------------------
\* a timestamp of the canonical shape that names a date and a time of day
isCanonical(timestamp) ==
    /\ isString(timestamp)
    /\ MatchPattern(timestamp, isoRegex)
    /\ DateOfIso(timestamp).valid

\* C28: every record created, in either flow, carries a canonical timestamp
\* derived from a valid date and time; in the guided flow a time selection
\* that is not a canonical timestamp is never persisted.
C28_CanonicalTimestamps ==
    /\ \A i \in DOMAIN crm : isCanonical(crm[i].Appointment_Time__c)
    /\ \A record \in issued :
           record.flow = "guided" => isCanonical(record.Appointment_Time__c)

----------------------------------------------------------------------------
\* C31: parsing of the LLM text tries, in this order, the direct parse, the
\* fenced code block, the first balanced {...} substring that parses, and
\* the empty object, and uses the first that succeeds; a fenced block that
\* does not parse falls through to the substring scan; the result of the
\* chain is always a JSON object.
C31_ParseChain ==
    \A r \in ReqSlots :
        (reqs[r].kind = "chat" /\ reqs[r].llmOutput # <<>>)
            => LET text  == reqs[r].llmOutput
                   block == codeBlockMatch(text)
                   scan  == firstParsing(jsonRegexMatches(text))
                   used  == IF JSONparse(text).ok THEN text
                            ELSE IF block # <<>> /\ JSONparse(block).ok THEN block
                            ELSE IF scan # <<>> THEN scan
                            ELSE <<Span(EmptyObject)>>
               IN  /\ reqs[r].parsedResponse = JSONparse(used).val
                   /\ reqs[r].parsedResponse.type = "object"

----------------------------------------------------------------------------
\* value is among values and no other of them occurs more often
isMostFrequent(value, values) ==
    /\ \E i \in DOMAIN values : values[i] = value
    /\ \A i \in DOMAIN values : counts(values, values[i]) <= counts(values, value)

\* C32: for a regular customer with prior appointments, the preferred
\* location and the preferred banker placed in the LLM context are the most
\* frequent non-null location and banker among the prior appointments.
C32_PreferredByMajority ==
    norm.pc = "context" =>
        LET locations == truthyValues(norm.previousAppointments, "Location__c")
            bankers   == truthyValues(norm.previousAppointments, "Banker__c")
        IN  /\ locations # <<>>
                => isMostFrequent(norm.contextData.preferredLocation, locations)
            /\ bankers # <<>>
                => isMostFrequent(norm.contextData.preferredBanker, bankers)

----------------------------------------------------------------------------
NewYork == <<"N", "e", "w", " ", "Y", "o", "r", "k">>

AllowedBranches == {Brooklyn, Manhattan, NewYork}

\* C33: the location of every appointment record created, by either flow, is
\* one of the allowed branches Brooklyn, Manhattan and New York; a slot set
\* with any other location is never committed.
C33_AllowedBranchesOnly ==
    /\ \A i \in DOMAIN crm : crm[i].Location__c \in AllowedBranches
    /\ \A record \in issued : record.Location__c \in AllowedBranches

----------------------------------------------------------------------------
\* the slot a guided step stores its query in, "" for the other steps
slotOfStep(guidedStep) ==
    CASE guidedStep = "reasonSelection" -> "reason"
      [] guidedStep = "timeSelection" -> "time"
      [] guidedStep = "locationSelection" -> "location"
      [] OTHER -> ""

\* C34: a guided-step request changes at most its own slot of the working
\* slot set of the session: reasonSelection only reason, timeSelection only
\* time, locationSelection only location; a confirmation whose create does
\* not succeed and a request with an unrecognized step change no slot.  The
\* slot set a request stores is the one it worked on.
C34_StepChangesOwnSlot ==
    [][ /\ started' # started
            => \E r \in ReqSlots :
                /\ startsRequest(r)
                /\ reqs'[r].kind = "guided"
                    => \A slot \in DOMAIN emptyGuidedFlow :
                        reqs'[r].session.guidedFlow[slot]
                            # loadSession(reqs'[r].sid).guidedFlow[slot]
                        => slot = slotOfStep(reqs'[r].guidedStep)
        /\ \A r \in ReqSlots :
            (continuesRequest(r) /\ reqs'[r].kind = "guided")
                => /\ reqs'[r].session.guidedFlow # reqs[r].session.guidedFlow
                        => /\ reqs'[r].guidedStep = "confirmation"
                           /\ reqs'[r].res.status = 200
                           /\ Len(crm') = Len(crm) + 1
                   /\ store' # store
                        => store'[reqs'[r].sid].data.guidedFlow
                               = reqs'[r].session.guidedFlow ]_vars

\* a time selection was stored next to the reason selected before it
C34_Witness ==
    \E r \in ReqSlots :
        /\ reqs[r].kind = "guided" /\ reqs[r].pc = "done"
        /\ reqs[r].guidedStep = "timeSelection"
        /\ store[reqs[r].sid].saved
        /\ store[reqs[r].sid].data.guidedFlow.reason = Loan
        /\ store[reqs[r].sid].data.guidedFlow.time = reqs[r].query

----------------------------------------------------------------------------
\* the appointmentDetails an assistant entry carries, null when it carries none
detailsOfEntry(entry) ==
    LET parse == JSONparse(entry.content)
    IN  IF parse.ok /\ parse.val.type = "object" /\ parse.val.appointmentDetails.kind = "obj"
        THEN parse.val.appointmentDetails
        ELSE NoDetails("null")

\* C35: the conversation-state read returns all non-system transcript entries
\* in their original order, and its appointmentDetails are those of the most
\* recent assistant entry of the transcript, null when there is no assistant
\* entry or it carries none.
C35_StateOfLatestReply ==
    \A r \in ReqSlots :
        (reqs[r].kind = "state" /\ reqs[r].pc = "done")
            => LET chatHistory == reqs[r].session.chatHistory
                   replies == assistantEntries(chatHistory)
               IN  /\ reqs[r].res.status = 200
                   /\ reqs[r].res.messages
                          = SelectSeq(chatHistory, LAMBDA msg : msg.role # "system")
                   /\ reqs[r].res.appointmentDetails
                          = IF replies = <<>> THEN NoDetails("null")
                            ELSE detailsOfEntry(replies[Len(replies)])

----------------------------------------------------------------------------
\* the turn in slot r has created a record
hasBooked(r) ==
    /\ reqs[r].kind = "chat" /\ reqs[r].pc = "done"
    /\ reqs[r].creates = 1
    /\ reqs[r].res.status = 200
    /\ reqs[r].res.appointmentDetails.Id # NULL

\* C36: when two booking turns in different sessions request the same free
\* timestamp and location and their availability checks and creates
\* interleave, at most one of them creates a record.
C36_OneBookingPerSlot ==
    \A one \in RaceSlots, other \in RaceSlots :
        (/\ one # other
         /\ reqs[one].sid # reqs[other].sid
         /\ hasBooked(one) /\ hasBooked(other))
            => ~(/\ reqs[one].createData.Appointment_Time__c
                        = reqs[other].createData.Appointment_Time__c
                 /\ reqs[one].createData.Location__c = reqs[other].createData.Location__c)


\* the step's suggested options are rendered as buttons (else only "Loading ...")
optionsOffered ==
    \/ client.guidedStep = "date" /\ client.llmDateSuggestions
    \/ client.guidedStep = "location" /\ client.llmLocationOptions

\* C37: whenever the guided flow waits for the user at the time or the location
\* step, a suggested option can be selected or a control leading back to the
\* reason step is enabled, also after a step request answered with an error
C37_GuidedNeverStuck ==
    (client.guidedStep \in {"date", "location"} /\ ~client.isProcessing)
        => (optionsOffered \/ ENABLED cancelConfirmation \/ ENABLED bookAnotherAppointment)


\* the turn requests of the component the server is working on
inFlight == { r \in RaceSlots : reqs[r].pc \notin {"idle", "done"} }

\* a handler that sends a turn request starts in this step
startsTurn == client'.fetch = "sent" /\ (client.fetch # "sent" \/ client'.query # client.query
                                          \/ client'.handler # client.handler)

\* C38: the component never has two turn requests (free-form chat or guided
\* step) in flight at once: no request is started while isProcessing is set,
\* a request in flight keeps isProcessing set, and after every request, with
\* a success or a failure, isProcessing returns to false
C38_OneTurnInFlight ==
    /\ [](Cardinality(inFlight) <= 1)
    /\ [](client.fetch # "none" => client.isProcessing)
    /\ [][client.isProcessing => ~startsTurn]_vars
    /\ (client.isProcessing ~> ~client.isProcessing)

\* a guided step and then a chat turn were sent, the chat turn was answered
\* with an error, and isProcessing is false again
C38_Witness ==
    /\ started = 2
    /\ client.guidedStep = "date"
    /\ reqs[1].kind = "chat" /\ reqs[1].pc = "done" /\ reqs[1].res.status # 200
    /\ client.handler = "none" /\ client.lastMessage = "error"
    /\ ~client.isProcessing


\* a transcript only chat turns have written: the system entry comes first
chatOnly(chatHistory) == \A i \in 2..Len(chatHistory) : chatHistory[i].role # "system"

\* every assistant entry comes right after a user entry
repliesFollowQueries(chatHistory) ==
    \A i \in 1..Len(chatHistory) :
        chatHistory[i].role = "assistant" => (i > 1 /\ chatHistory[i - 1].role = "user")

\* C39: in a session of free-form chat turns only, every assistant entry of the
\* transcript comes right after the user entry of its turn: the turn appends
\* its user entry before the LLM is called and its assistant entry only when
\* the LLM has answered, and a turn whose LLM call fails ends with its user
\* entry saved and no assistant entry
C39_ReplyFollowsQuery ==
    /\ [](\A sid \in Sessions :
            chatOnly(store[sid].data.chatHistory)
                => repliesFollowQueries(store[sid].data.chatHistory))
    /\ [](\A r \in ReqSlots :
            (reqs[r].kind = "chat" /\ reqs[r].pc = "llm")
                => /\ reqs[r].session.chatHistory # <<>>
                   /\ reqs[r].session.chatHistory[Len(reqs[r].session.chatHistory)]
                          = [role |-> "user", content |-> reqs[r].query])
    /\ [][\A r \in ReqSlots :
            (continuesRequest(r) /\ reqs[r].kind = "chat" /\ reqs[r].pc = "llm")
                => LET before == reqs[r].session.chatHistory
                       after == reqs'[r].session.chatHistory
                   IN  \/ /\ Len(after) = Len(before) + 1
                          /\ isPrefix(before, after)
                          /\ after[Len(after)].role = "assistant"
                       \/ /\ after = before
                          /\ reqs'[r].pc = "done" /\ reqs'[r].res.status # 200
                          /\ store'[reqs[r].sid].saved
                          /\ store'[reqs[r].sid].data.chatHistory = before]_vars

\* a turn whose LLM call failed left its user entry, and the next turn of the
\* session appended its user entry and the answer of the LLM after it
C39_Witness ==
    \E sid \in Sessions :
        LET chatHistory == store[sid].data.chatHistory IN
        /\ store[sid].saved
        /\ Len(chatHistory) = 4
        /\ [i \in 1..4 |-> chatHistory[i].role] = <<"system", "user", "user", "assistant">>
        /\ chatHistory[4].content # predefinedResponse
        /\ \E r \in ReqSlots : reqs[r].pc = "done" /\ reqs[r].kind = "chat" /\ reqs[r].sid = sid

====
